---- MODULE Spec2Model ----
(***************************************************************************)
(* The member handlers of the in-memory cache                              *)
(* (cache/in-memory/src/event/member.rs): the four shared maps members,    *)
(* guild_members, user_guilds and users, and every handler as the sequence *)
(* of map accesses it makes.  Each map access takes the map's lock (a      *)
(* guard), acts, and drops the guard where the Rust scope of the guard     *)
(* ends; one lock per map stands for DashMap's shard locks (every key in   *)
(* one shard).                                                             *)
(*                                                                         *)
(* Spec runs one handler at a time on thread 1 and remembers, while the    *)
(* handler runs, the event and the cache before it.  ConcSpec interleaves  *)
(* the handlers of several threads access by access; FairSpec adds that    *)
(* every thread that can step eventually does.  RichSpec is Spec on one    *)
(* key with every field value; PairSpec is ConcSpec on one key and         *)
(* remembers the cache the overlapping handlers started on.  CodeSpec      *)
(* converts numbers to ErrorCode values and back (http/src/api_error.rs).  *)
(* TwiceSpec is Spec with a MemberRemove that may be applied twice in a    *)
(* row.  WireSpec serializes InviteCreate values and reads them back       *)
(* (model/src/gateway/payload/invite_create.rs), CommandSpec configures    *)
(* and executes a CreateGlobalMessageCommand (http/src/request/            *)
(* application/command/create_global_command/message.rs), and ShowSpec     *)
(* formats MessageApiError values (http/src/api_error.rs).                 *)
(*                                                                         *)
(* cache_user, the PartialEq impls of CachedMember, wants() and the        *)
(* accessors member(), guild_members() and user() live outside             *)
(* event/member.rs; they are modelled from the specification.              *)
(***************************************************************************)
EXTENDS Integers, Sequences, FiniteSets, TLC

\* ------------------------------------------------------------------ bounds
NumThreads == 2
MaxOps == 3
MaxChunk == 2
MaxSets == 2
MaxFields == 6

\* ----------------------------------------------------------------- domains
Threads == 1..NumThreads
Tables == {"members", "guild_members", "user_guilds", "users"}

None == <<>>
Some(v) == <<v>>

\* The ids and payload values a run draws its events from.  A run keeps one
\* universe; a specification checks the union of the runs of its universes.
\* A plain universe varies the ids and deaf only.
Plain(gs, us, ds) ==
    [guilds |-> gs, users |-> us, names |-> {"n1"}, deafs |-> ds,
     mutes |-> {FALSE}, nicks |-> {None}, roles |-> {{}}, pendings |-> {FALSE},
     joins |-> {Some("t1")}, stamps |-> {"t1"},
     updeafs |-> {Some(d) : d \in ds \ {FALSE}} \cup {None}, upmutes |-> {None},
     premiums |-> {None}, bulk |-> TRUE]
SeqUniverses ==
    {Plain({"A", "B"}, {"u1"}, BOOLEAN), Plain({"A"}, {"u1", "u2"}, BOOLEAN)}
ConcUniverses == {Plain({"A", "B"}, {"u1"}, {FALSE})}
\* One key, with two nicknames and an update that may carry deaf, for
\* handlers that overlap on the key.
PairUniverses ==
    {[Plain({"A"}, {"u1"}, {FALSE}) EXCEPT
         !.nicks = {None, Some("k")},
         !.updeafs = {None, Some(TRUE)},
         !.bulk = FALSE]}
\* One key with every deaf and mute value, cached and updated; one key with
\* every nickname, role set, pending flag and join timestamp; one key whose
\* user profile comes with two names; and one key whose member may be
\* boosting the guild.
RichUniverses ==
    {[Plain({"A"}, {"u1"}, BOOLEAN) EXCEPT
         !.mutes = BOOLEAN,
         !.updeafs = {None, Some(TRUE), Some(FALSE)},
         !.upmutes = {None, Some(TRUE), Some(FALSE)},
         !.bulk = FALSE],
     [Plain({"A"}, {"u1"}, {FALSE}) EXCEPT
         !.nicks = {None, Some("k")},
         !.roles = {{}, {"r"}},
         !.pendings = BOOLEAN,
         !.joins = {None, Some("t1")},
         !.stamps = {"t1", "t2"},
         !.bulk = FALSE],
     [Plain({"A"}, {"u1"}, {FALSE}) EXCEPT
         !.names = {"n1", "n2"},
         !.bulk = FALSE],
     [Plain({"A"}, {"u1"}, {FALSE}) EXCEPT
         !.premiums = {None, Some("t1")},
         !.bulk = FALSE]}
AllGuilds == {"A", "B"}
AllUsers == {"u1", "u2"}

\* -------------------------------------------------------------------- maps
\* DashMap::insert
Put(f, k, v) == [x \in DOMAIN f \cup {k} |-> IF x = k THEN v ELSE f[x]]
\* DashMap::remove
Del(f, k) == [x \in DOMAIN f \ {k} |-> f[x]]
\* Mutant: the owner's set is replaced by the one element.
EntryInsertAlone(idx, owner, x) == Put(idx, owner, {x})

\* map.entry(owner).or_default().insert(x)
EntryInsert(idx, owner, x) ==
    Put(idx, owner, (IF owner \in DOMAIN idx THEN idx[owner] ELSE {}) \cup {x})
\* map.entry(owner).or_default().extend(xs)
EntryExtend(idx, owner, xs) ==
    Put(idx, owner, (IF owner \in DOMAIN idx THEN idx[owner] ELSE {}) \cup xs)

VARIABLES
    members,        \* (guild, user) -> CachedMember
    guild_members,  \* guild -> set of user ids (roster index)
    user_guilds,    \* user -> set of guild ids (membership index)
    users,          \* user -> User
    wanted,         \* whether the configured resource types include MEMBER
    universe,       \* the ids and payload values events are drawn from
    pc,             \* per thread: the next step of its handler
    call,           \* per thread: the event being handled
    loc,            \* per thread: the handler's local variables
    held,           \* per thread: the guards it holds, oldest first
    trace,          \* per thread: the maps the current handler has locked
    started,        \* number of handler invocations begun
    last,           \* Spec only: the running event and the cache before it
    conv,           \* the last ErrorCode conversion made (http/src/api_error.rs)
    wire,           \* the last InviteCreate serialized and read back
    cmd,            \* a CreateGlobalMessageCommand, and what its client was handed
    shown           \* the last MessageApiError formatted, and the text written

tables == <<members, guild_members, user_guilds, users>>
threadVars == <<pc, call, loc, held, trace>>
\* What no cache handler writes.
config == <<wanted, universe, conv, wire, cmd, shown>>
vars == <<members, guild_members, user_guilds, users, wanted, universe, pc,
          call, loc, held, trace, started, last, conv, wire, cmd, shown>>

\* ----------------------------------------------------------------- inputs
Guilds == universe.guilds
Users == universe.users

\* twilight_model::user::User, reduced to the id and one profile field.
Profiles == [id : Users, name : universe.names]

\* twilight_model::guild::Member as carried by MemberAdd and MemberChunk.
MemberInputs ==
    [user : Profiles, deaf : universe.deafs, mute : universe.mutes,
     nick : universe.nicks, pending : universe.pendings,
     premium_since : universe.premiums, roles : universe.roles,
     joined_at : universe.joins]

\* The members the list of a MemberChunk is drawn from: every member input,
\* or in a universe without bulk variety the one with the first values.
ChunkInputs ==
    IF universe.bulk THEN MemberInputs
    ELSE {m \in MemberInputs :
            /\ ~ m.deaf /\ ~ m.mute /\ m.nick = None /\ ~ m.pending
            /\ m.roles = {} /\ m.joined_at = Some("t1") /\ m.user.name = "n1"
            /\ m.premium_since = None}

\* twilight_model::guild::PartialMember.
PartialInputs ==
    [deaf : {FALSE}, mute : {FALSE}, nick : {None}, roles : {{}},
     joined_at : {Some("t1")}]

\* InteractionMember: carries neither deaf nor mute.
InteractionInputs ==
    [id : Users, nick : {None}, premium_since : {None},
     roles : {{}}, joined_at : {Some("t1")}]

\* MemberUpdate: deaf and mute are optional, joined_at is not.
UpdateInputs ==
    [user : Profiles, deaf : universe.updeafs,
     mute : universe.upmutes, nick : universe.nicks, roles : universe.roles,
     joined_at : universe.stamps, pending : universe.pendings]

\* MemberRemove carries the user; only its id is read.
RemoveInputs == [id : Users, name : {"n1"}]

\* Lists of members of a MemberChunk, of length 0..MaxChunk.
RECURSIVE SeqsUpTo(_, _)
SeqsUpTo(S, n) ==
    IF n = 0 THEN {<<>>}
    ELSE LET shorter == SeqsUpTo(S, n - 1)
         IN  shorter \cup {Append(s, x) : s \in {q \in shorter : Len(q) = n - 1}, x \in S}

\* The cache as one value, for before/after comparisons.
Snapshot ==
    [members |-> members, guild_members |-> guild_members,
     user_guilds |-> user_guilds, users |-> users]

\* -------------------------------------------------------------- accessors
\* InMemoryCache::member(guild, user).is_some()
HasMember(g, u) == <<g, u>> \in DOMAIN members
\* the set behind InMemoryCache::guild_members(guild), empty when absent
Roster(g) == IF g \in DOMAIN guild_members THEN guild_members[g] ELSE {}
\* the set behind user_guilds.get(user), empty when absent
Membership(u) == IF u \in DOMAIN user_guilds THEN user_guilds[u] ELSE {}
\* InMemoryCache::user(id).is_some()
HasUser(u) == u \in DOMAIN users


\* ------------------------------------------------------------ projections
\* CachedMember built from a full Member (cache_member).
CachedFromMember(g, m) ==
    [deaf |-> Some(m.deaf), guild_id |-> g, joined_at |-> m.joined_at,
     mute |-> Some(m.mute), nick |-> m.nick, pending |-> m.pending,
     premium_since |-> m.premium_since, roles |-> m.roles,
     user_id |-> m.user.id]

\* CachedMember built from a PartialMember (cache_borrowed_partial_member).
CachedFromPartial(g, u, m) ==
    [deaf |-> Some(m.deaf), guild_id |-> g, joined_at |-> m.joined_at,
     mute |-> Some(m.mute), nick |-> m.nick, pending |-> FALSE,
     premium_since |-> None, roles |-> m.roles, user_id |-> u]

\* CachedMember built from an InteractionMember and the deaf and mute read
\* from the record cached before (cache_borrowed_interaction_member).
CachedFromInteraction(g, m, deaf, mute) ==
    [deaf |-> deaf, guild_id |-> g, joined_at |-> m.joined_at,
     mute |-> mute, nick |-> m.nick, pending |-> FALSE,
     premium_since |-> m.premium_since, roles |-> m.roles, user_id |-> m.id]

\* Option::or
OrElse(a, b) == IF a # None THEN a ELSE b
\* Mutant: deaf and mute are overwritten with what the event carries.
UpdatedMemberOverwrite(c, ev) ==
    [c EXCEPT !.deaf = ev.deaf,
              !.mute = ev.mute,
              !.nick = ev.nick,
              !.roles = ev.roles,
              !.joined_at = Some(ev.joined_at),
              !.pending = ev.pending]

\* Mutant: the role set and the join timestamp of the record are kept.
UpdatedMemberKeep(c, ev) ==
    [c EXCEPT !.deaf = OrElse(ev.deaf, c.deaf),
              !.mute = OrElse(ev.mute, c.mute),
              !.nick = ev.nick,
              !.joined_at = OrElse(c.joined_at, Some(ev.joined_at)),
              !.pending = ev.pending]
\* Mutant: the record's deaf and mute win over the event's.
UpdatedMemberPriorFirst(c, ev) ==
    [c EXCEPT !.deaf = OrElse(c.deaf, ev.deaf),
              !.mute = OrElse(c.mute, ev.mute),
              !.nick = ev.nick,
              !.roles = ev.roles,
              !.joined_at = Some(ev.joined_at),
              !.pending = ev.pending]

\* The field assignments of MemberUpdate on the cached record.
UpdatedMember(c, ev) ==
    [c EXCEPT !.deaf = OrElse(ev.deaf, c.deaf),
              !.mute = OrElse(ev.mute, c.mute),
              !.nick = ev.nick,
              !.roles = ev.roles,
              !.joined_at = Some(ev.joined_at),
              !.pending = ev.pending]

\* impl PartialEq<Member> for CachedMember: the fields a Member carries.
EqMember(c, m) ==
    /\ c.deaf = Some(m.deaf)
    /\ c.joined_at = m.joined_at
    /\ c.mute = Some(m.mute)
    /\ c.nick = m.nick
    /\ c.pending = m.pending
    /\ c.premium_since = m.premium_since
    /\ c.roles = m.roles
    /\ c.user_id = m.user.id

\* impl PartialEq<&PartialMember> for CachedMember.
EqPartial(c, m) ==
    /\ c.deaf = Some(m.deaf)
    /\ c.joined_at = m.joined_at
    /\ c.mute = Some(m.mute)
    /\ c.nick = m.nick
    /\ c.roles = m.roles

\* impl PartialEq<&InteractionMember> for CachedMember.
EqInteraction(c, m) ==
    /\ c.joined_at = m.joined_at
    /\ c.nick = m.nick
    /\ c.premium_since = m.premium_since
    /\ c.roles = m.roles

\* InMemoryCache::wants(ResourceType::MEMBER)
Wants == wanted

\* ------------------------------------------------------------------ locks
\* Mutant: a guard excludes nothing.
CanLockAlways(table, mode) == TRUE

\* A map's lock is a reader-writer lock: a read guard ("r") excludes write
\* guards, a write guard ("w") excludes every other guard.
CanLock(table, mode) ==
    \A s \in Threads : \A i \in 1..Len(held[s]) :
        held[s][i][1] = table => (mode = "r" /\ held[s][i][2] = "r")

Lock(t, table, mode) ==
    /\ CanLock(table, mode)
    /\ held' = [held EXCEPT ![t] = Append(@, <<table, mode>>)]
    /\ trace' = [trace EXCEPT ![t] = Append(@, table)]

\* The newest guard goes out of scope.
Drop(t) ==
    /\ held[t] # <<>>
    /\ held' = [held EXCEPT ![t] = SubSeq(@, 1, Len(@) - 1)]
    /\ UNCHANGED trace

Goto(t, label) == pc' = [pc EXCEPT ![t] = label]

\* A guard is dropped and the handler moves from label `from` to label `to`.
Release(t, from, to) ==
    /\ pc[t] = from
    /\ Drop(t)
    /\ Goto(t, to)
    /\ UNCHANGED <<tables, config, call, loc, started, last>>

\* ------------------------------------------------------------- invocation
IdleCall == [op |-> "none", g |-> "-", u |-> "-", arg |-> <<>>]
IdleLoc == [same |-> FALSE, remove_user |-> FALSE, i |-> 1,
            deaf |-> None, mute |-> None, seen |-> None]
NoLast == [op |-> "none", g |-> "-", u |-> "-", arg |-> <<>>,
           pre |-> [members |-> <<>>, guild_members |-> <<>>,
                    user_guilds |-> <<>>, users |-> <<>>]]

Gated == {"MemberAdd", "MemberChunk", "MemberRemove", "MemberUpdate"}

\* The read-only accessors: member(guild, user), guild_members(guild), user(id).
Queries == {"QueryMember", "QueryRoster", "QueryUser"}

\* Where each entry point begins.
FirstLabel(op) ==
    CASE op \in Gated -> "gate"
      [] op = "CachePartial" -> "pm_get"
      [] op \in Queries -> "q_get"
      [] op = "CacheInteraction" -> "im_get"

\* Where each gated handler goes once the gate lets it through.
AfterGate(op) ==
    CASE op = "MemberAdd" -> "cm_get"
      [] op = "MemberChunk" -> "mc_empty"
      [] op = "MemberRemove" -> "mr_members"
      [] op = "MemberUpdate" -> "mu_get"

\* The events a thread may be handed: <<op, guild, user, payloads>>.
Events ==
    {<<"MemberAdd", g, m.user.id, <<m>>>> : g \in Guilds, m \in MemberInputs}
    \cup {<<"MemberChunk", g, "-", ms>> : g \in Guilds, ms \in SeqsUpTo(ChunkInputs, MaxChunk)}
    \cup {<<"MemberRemove", g, p.id, <<p>>>> : g \in Guilds, p \in RemoveInputs}
    \cup {<<"MemberUpdate", g, e.user.id, <<e>>>> : g \in Guilds, e \in UpdateInputs}
    \cup {<<"CachePartial", g, u, <<m>>>> : g \in Guilds, u \in Users, m \in PartialInputs}
    \cup {<<"CacheInteraction", g, m.id, <<m>>>> : g \in Guilds, m \in InteractionInputs}
    \cup {<<"QueryMember", g, u, <<>>>> : g \in Guilds, u \in Users}
    \cup {<<"QueryRoster", g, "-", <<>>>> : g \in Guilds}
    \cup {<<"QueryUser", "-", u, <<>>>> : u \in Users}

Begin(t, ev) ==
    /\ pc[t] = "idle"
    /\ pc' = [pc EXCEPT ![t] = FirstLabel(ev[1])]
    /\ call' = [call EXCEPT ![t] = [op |-> ev[1], g |-> ev[2], u |-> ev[3], arg |-> ev[4]]]
    /\ loc' = [loc EXCEPT ![t] = IdleLoc]
    /\ trace' = [trace EXCEPT ![t] = <<>>]
    /\ UNCHANGED <<tables, config, held>>

\* One handler at a time: the event starts on an idle cache, and the cache
\* before it is remembered.
StartSeq(t) ==
    /\ \A s \in Threads : pc[s] = "idle"
    /\ t = 1
    /\ \E ev \in Events :
        /\ Begin(t, ev)
        /\ last' = [op |-> ev[1], g |-> ev[2], u |-> ev[3], arg |-> ev[4],
                    pre |-> Snapshot]
        /\ UNCHANGED started

\* Any idle thread may start a handler while others are running.  The first
\* handler of a run has returned before the second starts, so that the
\* handlers that overlap start from a cache some event has filled.
StartConc(t) ==
    /\ pc[t] = "idle"
    /\ started < MaxOps
    /\ started = 1 => \A s \in Threads : pc[s] = "idle"
    /\ \E ev \in Events :
        /\ Begin(t, ev)
        /\ started' = started + 1
        /\ UNCHANGED last

\* As StartConc, and the cache is remembered when the first of the handlers
\* that may overlap starts.
StartPair(t) ==
    /\ pc[t] = "idle"
    /\ started < MaxOps
    /\ started = 1 => \A s \in Threads : pc[s] = "idle"
    /\ \E ev \in Events :
        /\ Begin(t, ev)
        /\ started' = started + 1
        /\ last' = IF started = 1
                   THEN [NoLast EXCEPT !.op = "pair", !.pre = Snapshot]
                   ELSE last
\* The MemberRemove that has just been applied is applied once more, and the
\* cache it left is remembered.
Again(t) ==
    /\ t = 1
    /\ pc[t] = "done"
    /\ last.op = "MemberRemove"
    /\ pc' = [pc EXCEPT ![t] = FirstLabel(call[t].op)]
    /\ loc' = [loc EXCEPT ![t] = IdleLoc]
    /\ trace' = [trace EXCEPT ![t] = <<>>]
    /\ last' = [last EXCEPT !.op = "MemberRemoveAgain", !.pre = Snapshot]
    /\ UNCHANGED <<tables, config, call, held, started>>

\* The handler returns.
Return(t) ==
    /\ pc[t] = "done"
    /\ pc' = [pc EXCEPT ![t] = "idle"]
    /\ call' = [call EXCEPT ![t] = IdleCall]
    /\ loc' = [loc EXCEPT ![t] = IdleLoc]
    /\ trace' = [trace EXCEPT ![t] = <<>>]
    /\ last' = NoLast
    /\ UNCHANGED <<tables, config, held, started>>

\* The payload in hand: the i-th member of a chunk, else the only payload.
Cur(t) == call[t].arg[loc[t].i]
\* The user id in hand.
U(t) == IF call[t].op = "MemberChunk" THEN Cur(t).user.id ELSE call[t].u
\* The (guild, user) key in hand.
Key(t) == <<call[t].g, U(t)>>
\* Mutant: the handler goes on whatever the selector holds.
GateOpen(t) ==
    /\ pc[t] = "gate"
    /\ Goto(t, AfterGate(call[t].op))
    /\ UNCHANGED <<tables, config, call, loc, held, trace, started, last>>

\* if !cache.wants(ResourceType::MEMBER) { return; }
Gate(t) ==
    /\ pc[t] = "gate"
    /\ Goto(t, IF Wants THEN AfterGate(call[t].op) ELSE "done")
    /\ UNCHANGED <<tables, config, call, loc, held, trace, started, last>>

\* ----------------------------------------------------------- MemberRemove
\* cache.0.members.remove(&(guild_id, user.id))
MrMembers(t) ==
    /\ pc[t] = "mr_members"
    /\ Lock(t, "members", "w")
    /\ members' = Del(members, Key(t))
    /\ Goto(t, "mr_members_drop")
    /\ UNCHANGED <<guild_members, user_guilds, users, config, call, loc, started, last>>

\* Mutant: the roster access is skipped after the Member table access.
MrMembersDropSkip(t) == Release(t, "mr_members_drop", "mr_guilds")

MrMembersDrop(t) == Release(t, "mr_members_drop", "mr_roster")

\* Mutant: the user id is left in the roster.
MrRosterSkip(t) ==
    /\ pc[t] = "mr_roster"
    /\ Lock(t, "guild_members", "w")
    /\ Goto(t, "mr_roster_drop")
    /\ UNCHANGED <<tables, config, call, loc, started, last>>
\* Mutant: the whole roster of the guild is cleared.
MrRosterClear(t) ==
    /\ pc[t] = "mr_roster"
    /\ Lock(t, "guild_members", "w")
    /\ guild_members' =
          IF call[t].g \in DOMAIN guild_members
          THEN Put(guild_members, call[t].g, {})
          ELSE guild_members
    /\ Goto(t, "mr_roster_drop")
    /\ UNCHANGED <<members, user_guilds, users, config, call, loc, started, last>>

\* if let Some(mut members) = guild_members.get_mut(&guild_id) { members.remove(&user.id); }
MrRoster(t) ==
    /\ pc[t] = "mr_roster"
    /\ Lock(t, "guild_members", "w")
    /\ guild_members' =
          IF call[t].g \in DOMAIN guild_members
          THEN Put(guild_members, call[t].g, guild_members[call[t].g] \ {U(t)})
          ELSE guild_members
    /\ Goto(t, "mr_roster_drop")
    /\ UNCHANGED <<members, user_guilds, users, config, call, loc, started, last>>

\* Mutant: the roster guard outlives its scope.
MrRosterDropKeep(t) ==
    /\ pc[t] = "mr_roster_drop"
    /\ Goto(t, "mr_guilds")
    /\ UNCHANGED <<tables, config, call, loc, held, trace, started, last>>

MrRosterDrop(t) == Release(t, "mr_roster_drop", "mr_guilds")

\* Mutant: remove_user is never set.
MrGuildsNoFlag(t) ==
    /\ pc[t] = "mr_guilds"
    /\ Lock(t, "user_guilds", "w")
    /\ IF U(t) \in DOMAIN user_guilds
       THEN user_guilds' = Put(user_guilds, U(t), user_guilds[U(t)] \ {call[t].g})
       ELSE UNCHANGED user_guilds
    /\ Goto(t, "mr_guilds_drop")
    /\ UNCHANGED <<members, guild_members, users, config, call, loc, started, last>>

\* Mutant: remove_user is set whenever the user has a membership entry.
MrGuildsAlways(t) ==
    /\ pc[t] = "mr_guilds"
    /\ Lock(t, "user_guilds", "w")
    /\ IF U(t) \in DOMAIN user_guilds
       THEN /\ user_guilds' = Put(user_guilds, U(t), user_guilds[U(t)] \ {call[t].g})
            /\ loc' = [loc EXCEPT ![t].remove_user = TRUE]
       ELSE UNCHANGED <<user_guilds, loc>>
    /\ Goto(t, "mr_guilds_drop")
    /\ UNCHANGED <<members, guild_members, users, config, call, started, last>>
\* Mutant: remove_user starts out true.
MrGuildsDefaultTrue(t) ==
    /\ pc[t] = "mr_guilds"
    /\ Lock(t, "user_guilds", "w")
    /\ IF U(t) \in DOMAIN user_guilds
       THEN /\ user_guilds' = Put(user_guilds, U(t), user_guilds[U(t)] \ {call[t].g})
            /\ loc' = [loc EXCEPT ![t].remove_user = (user_guilds[U(t)] \ {call[t].g} = {})]
       ELSE /\ UNCHANGED user_guilds
            /\ loc' = [loc EXCEPT ![t].remove_user = TRUE]
    /\ Goto(t, "mr_guilds_drop")
    /\ UNCHANGED <<members, guild_members, users, config, call, started, last>>
\* Mutant: remove_user is computed before the guild is taken out of the set.
MrGuildsStale(t) ==
    /\ pc[t] = "mr_guilds"
    /\ Lock(t, "user_guilds", "w")
    /\ IF U(t) \in DOMAIN user_guilds
       THEN /\ user_guilds' = Put(user_guilds, U(t), user_guilds[U(t)] \ {call[t].g})
            /\ loc' = [loc EXCEPT ![t].remove_user = (user_guilds[U(t)] = {})]
       ELSE UNCHANGED <<user_guilds, loc>>
    /\ Goto(t, "mr_guilds_drop")
    /\ UNCHANGED <<members, guild_members, users, config, call, started, last>>

\* if let Some(mut user_guilds) = user_guilds.get_mut(&user.id) {
\*     user_guilds.remove(&guild_id); remove_user = user_guilds.is_empty(); }
MrGuilds(t) ==
    /\ pc[t] = "mr_guilds"
    /\ Lock(t, "user_guilds", "w")
    /\ IF U(t) \in DOMAIN user_guilds
       THEN /\ user_guilds' = Put(user_guilds, U(t), user_guilds[U(t)] \ {call[t].g})
            /\ loc' = [loc EXCEPT ![t].remove_user = (user_guilds[U(t)] \ {call[t].g} = {})]
       ELSE UNCHANGED <<user_guilds, loc>>
    /\ Goto(t, "mr_guilds_drop")
    /\ UNCHANGED <<members, guild_members, users, config, call, started, last>>

\* Mutant: the membership guard is still held when the User table is locked.
MrGuildsDropKeep(t) ==
    /\ pc[t] = "mr_guilds_drop"
    /\ Goto(t, IF loc[t].remove_user THEN "mr_users" ELSE "done")
    /\ UNCHANGED <<tables, config, call, loc, held, trace, started, last>>

MrGuildsDrop(t) ==
    Release(t, "mr_guilds_drop", IF loc[t].remove_user THEN "mr_users" ELSE "done")

\* Mutant: the User record is left in place.
MrUsersSkip(t) ==
    /\ pc[t] = "mr_users"
    /\ Lock(t, "users", "w")
    /\ Goto(t, "mr_users_drop")
    /\ UNCHANGED <<tables, config, call, loc, started, last>>

\* if remove_user { cache.0.users.remove(&user.id); }
MrUsers(t) ==
    /\ pc[t] = "mr_users"
    /\ Lock(t, "users", "w")
    /\ users' = Del(users, U(t))
    /\ Goto(t, "mr_users_drop")
    /\ UNCHANGED <<members, guild_members, user_guilds, config, call, loc, started, last>>

MrUsersDrop(t) == Release(t, "mr_users_drop", "done")

\* ----------------------------------------------------------- cache_member
\* Where cache_member returns to.
AfterCacheMember(t) ==
    CASE call[t].op = "MemberAdd" -> "ma_roster"
      [] call[t].op = "MemberChunk" -> "mc_next"

\* if let Some(m) = self.0.members.get(&id) { if *m == member { return; } }
CmGet(t) ==
    /\ pc[t] = "cm_get"
    /\ Lock(t, "members", "r")
    /\ loc' = [loc EXCEPT ![t].same =
                  Key(t) \in DOMAIN members /\ EqMember(members[Key(t)], Cur(t))]
    /\ Goto(t, "cm_get_drop")
    /\ UNCHANGED <<tables, config, call, started, last>>
\* Mutant: cache_member goes on although the cached record equals the member.
CmGetDropAlways(t) == Release(t, "cm_get_drop", "cu_users")

CmGetDrop(t) ==
    Release(t, "cm_get_drop", IF loc[t].same THEN AfterCacheMember(t) ELSE "cu_users")

\* cache_user(user, Some(guild_id)): the profile is upserted into users ...
CuUsers(t) ==
    /\ pc[t] = "cu_users"
    /\ Lock(t, "users", "w")
    /\ users' = Put(users, U(t), Cur(t).user)
    /\ Goto(t, "cu_users_drop")
    /\ UNCHANGED <<members, guild_members, user_guilds, config, call, loc, started, last>>

CuUsersDrop(t) == Release(t, "cu_users_drop", "cu_guilds")

\* ... and the guild is inserted into the user's membership set.
CuGuilds(t) ==
    /\ pc[t] = "cu_guilds"
    /\ Lock(t, "user_guilds", "w")
    /\ user_guilds' = EntryInsert(user_guilds, U(t), call[t].g)
    /\ Goto(t, "cu_guilds_drop")
    /\ UNCHANGED <<members, guild_members, users, config, call, loc, started, last>>

CuGuildsDrop(t) == Release(t, "cu_guilds_drop", "cm_insert")

\* self.0.members.insert(id, cached)
CmInsert(t) ==
    /\ pc[t] = "cm_insert"
    /\ Lock(t, "members", "w")
    /\ members' = Put(members, Key(t), CachedFromMember(call[t].g, Cur(t)))
    /\ Goto(t, "cm_insert_drop")
    /\ UNCHANGED <<guild_members, user_guilds, users, config, call, loc, started, last>>

CmInsertDrop(t) == Release(t, "cm_insert_drop", "cm_roster")

\* self.0.guild_members.entry(guild_id).or_default().insert(member_id)
CmRoster(t) ==
    /\ pc[t] = "cm_roster"
    /\ Lock(t, "guild_members", "w")
    /\ guild_members' = EntryInsert(guild_members, call[t].g, U(t))
    /\ Goto(t, "cm_roster_drop")
    /\ UNCHANGED <<members, user_guilds, users, config, call, loc, started, last>>

CmRosterDrop(t) == Release(t, "cm_roster_drop", AfterCacheMember(t))

\* -------------------------------------------------------------- MemberAdd
\* cache.0.guild_members.entry(self.guild_id).or_default().insert(self.0.user.id)
MaRoster(t) ==
    /\ pc[t] = "ma_roster"
    /\ Lock(t, "guild_members", "w")
    /\ guild_members' = EntryInsert(guild_members, call[t].g, U(t))
    /\ Goto(t, "ma_roster_drop")
    /\ UNCHANGED <<members, user_guilds, users, config, call, loc, started, last>>

MaRosterDrop(t) == Release(t, "ma_roster_drop", "done")

\* ------------------------------------------------------------ MemberChunk
\* Mutant: an empty list is handled like any other.
McEmptySkip(t) ==
    /\ pc[t] = "mc_empty"
    /\ Goto(t, IF call[t].arg = <<>> THEN "mc_roster" ELSE "cm_get")
    /\ UNCHANGED <<tables, config, call, loc, held, trace, started, last>>

\* if self.members.is_empty() { return; }
McEmpty(t) ==
    /\ pc[t] = "mc_empty"
    /\ Goto(t, IF call[t].arg = <<>> THEN "done" ELSE "cm_get")
    /\ UNCHANGED <<tables, config, call, loc, held, trace, started, last>>
\* Mutant: cache_members stops after the first member.
McNextOnce(t) ==
    /\ pc[t] = "mc_next"
    /\ Goto(t, "mc_roster")
    /\ UNCHANGED <<tables, config, call, loc, held, trace, started, last>>

\* cache_members: for member in members { self.cache_member(guild_id, member); }
McNext(t) ==
    /\ pc[t] = "mc_next"
    /\ IF loc[t].i < Len(call[t].arg)
       THEN /\ loc' = [loc EXCEPT ![t].i = @ + 1]
            /\ Goto(t, "cm_get")
       ELSE /\ Goto(t, "mc_roster")
            /\ UNCHANGED loc
    /\ UNCHANGED <<tables, config, call, held, trace, started, last>>

\* let mut guild = guild_members.entry(guild_id).or_default();
\* guild.extend(members.iter().map(|member| member.user.id));
McRoster(t) ==
    /\ pc[t] = "mc_roster"
    /\ Lock(t, "guild_members", "w")
    /\ guild_members' =
          EntryExtend(guild_members, call[t].g,
                      {call[t].arg[i].user.id : i \in 1..Len(call[t].arg)})
    /\ Goto(t, "mc_roster_drop")
    /\ UNCHANGED <<members, user_guilds, users, config, call, loc, started, last>>

McRosterDrop(t) == Release(t, "mc_roster_drop", "done")

\* ------------------------------------------ cache_borrowed_partial_member
\* if let Some(m) = self.0.members.get(&id) { if *m == member { return; } }
PmGet(t) ==
    /\ pc[t] = "pm_get"
    /\ Lock(t, "members", "r")
    /\ loc' = [loc EXCEPT ![t].same =
                  Key(t) \in DOMAIN members /\ EqPartial(members[Key(t)], Cur(t))]
    /\ Goto(t, "pm_get_drop")
    /\ UNCHANGED <<tables, config, call, started, last>>

PmGetDrop(t) ==
    Release(t, "pm_get_drop", IF loc[t].same THEN "done" ELSE "pm_roster")

\* self.0.guild_members.entry(guild_id).or_default().insert(user_id)
PmRoster(t) ==
    /\ pc[t] = "pm_roster"
    /\ Lock(t, "guild_members", "w")
    /\ guild_members' = EntryInsert(guild_members, call[t].g, U(t))
    /\ Goto(t, "pm_roster_drop")
    /\ UNCHANGED <<members, user_guilds, users, config, call, loc, started, last>>

PmRosterDrop(t) == Release(t, "pm_roster_drop", "pm_insert")

\* self.0.members.insert(id, cached)
PmInsert(t) ==
    /\ pc[t] = "pm_insert"
    /\ Lock(t, "members", "w")
    /\ members' = Put(members, Key(t), CachedFromPartial(call[t].g, U(t), Cur(t)))
    /\ Goto(t, "pm_insert_drop")
    /\ UNCHANGED <<guild_members, user_guilds, users, config, call, loc, started, last>>

PmInsertDrop(t) == Release(t, "pm_insert_drop", "done")

\* -------------------------------------- cache_borrowed_interaction_member
\* Mutant: the deaf and mute of the cached record are not read.
ImGetForget(t) ==
    /\ pc[t] = "im_get"
    /\ Lock(t, "members", "r")
    /\ loc' = [loc EXCEPT
                 ![t].same = Key(t) \in DOMAIN members
                             /\ EqInteraction(members[Key(t)], Cur(t)),
                 ![t].deaf = None,
                 ![t].mute = None]
    /\ Goto(t, "im_get_drop")
    /\ UNCHANGED <<tables, config, call, started, last>>

\* let (deaf, mute) = match self.0.members.get(&id) {
\*     Some(m) if *m == member => return,
\*     Some(m) => (m.deaf, m.mute),
\*     None => (None, None) };
ImGet(t) ==
    /\ pc[t] = "im_get"
    /\ Lock(t, "members", "r")
    /\ loc' = [loc EXCEPT
                 ![t].same = Key(t) \in DOMAIN members
                             /\ EqInteraction(members[Key(t)], Cur(t)),
                 ![t].deaf = IF Key(t) \in DOMAIN members
                             THEN members[Key(t)].deaf ELSE None,
                 ![t].mute = IF Key(t) \in DOMAIN members
                             THEN members[Key(t)].mute ELSE None]
    /\ Goto(t, "im_get_drop")
    /\ UNCHANGED <<tables, config, call, started, last>>

ImGetDrop(t) ==
    Release(t, "im_get_drop", IF loc[t].same THEN "done" ELSE "im_roster")

\* self.0.guild_members.entry(guild_id).or_default().insert(member.id)
ImRoster(t) ==
    /\ pc[t] = "im_roster"
    /\ Lock(t, "guild_members", "w")
    /\ guild_members' = EntryInsert(guild_members, call[t].g, U(t))
    /\ Goto(t, "im_roster_drop")
    /\ UNCHANGED <<members, user_guilds, users, config, call, loc, started, last>>

ImRosterDrop(t) == Release(t, "im_roster_drop", "im_insert")

\* self.0.members.insert(id, cached)
ImInsert(t) ==
    /\ pc[t] = "im_insert"
    /\ Lock(t, "members", "w")
    /\ members' = Put(members, Key(t),
                      CachedFromInteraction(call[t].g, Cur(t), loc[t].deaf, loc[t].mute))
    /\ Goto(t, "im_insert_drop")
    /\ UNCHANGED <<guild_members, user_guilds, users, config, call, loc, started, last>>

ImInsertDrop(t) == Release(t, "im_insert_drop", "done")

\* ----------------------------------------------------------- MemberUpdate
\* Mutant: an update for a key with no record creates one from the event.
MuGetSynth(t) ==
    /\ pc[t] = "mu_get"
    /\ Lock(t, "members", "w")
    /\ members' =
          Put(members, Key(t),
              IF Key(t) \in DOMAIN members
              THEN UpdatedMember(members[Key(t)], Cur(t))
              ELSE [deaf |-> Cur(t).deaf, guild_id |-> call[t].g,
                    joined_at |-> Some(Cur(t).joined_at), mute |-> Cur(t).mute,
                    nick |-> Cur(t).nick, pending |-> Cur(t).pending,
                    premium_since |-> None, roles |-> Cur(t).roles,
                    user_id |-> U(t)])
    /\ Goto(t, "mu_drop")
    /\ UNCHANGED <<guild_members, user_guilds, users, config, call, loc, started, last>>

\* let mut member = match members.get_mut(&(guild_id, user.id)) {
\*     Some(member) => member, None => return };
\* member.deaf = self.deaf.or(member.deaf);
\* member.mute = self.mute.or(member.mute);
MuGet(t) ==
    /\ pc[t] = "mu_get"
    /\ Lock(t, "members", "w")
    /\ IF Key(t) \in DOMAIN members
       THEN /\ members' =
                  Put(members, Key(t),
                      [members[Key(t)] EXCEPT
                          !.deaf = UpdatedMember(members[Key(t)], Cur(t)).deaf,
                          !.mute = UpdatedMember(members[Key(t)], Cur(t)).mute])
            /\ Goto(t, "mu_write")
       ELSE /\ UNCHANGED members
            /\ Goto(t, "mu_drop")
    /\ UNCHANGED <<guild_members, user_guilds, users, config, call, loc, started, last>>
\* Mutant: the update also clears premium_since.
MuWriteBoost(t) ==
    /\ pc[t] = "mu_write"
    /\ members' =
          Put(members, Key(t),
              [members[Key(t)] EXCEPT
                  !.nick = UpdatedMember(members[Key(t)], Cur(t)).nick,
                  !.roles = UpdatedMember(members[Key(t)], Cur(t)).roles,
                  !.joined_at = UpdatedMember(members[Key(t)], Cur(t)).joined_at,
                  !.pending = UpdatedMember(members[Key(t)], Cur(t)).pending,
                  !.premium_since = None])
    /\ Goto(t, "mu_drop")
    /\ UNCHANGED <<guild_members, user_guilds, users, config, call, loc, held,
                   trace, started, last>>

\* member.nick = ..; member.roles = ..; member.joined_at.replace(..);
\* member.pending = ..; under the guard taken by get_mut.
MuWrite(t) ==
    /\ pc[t] = "mu_write"
    /\ members' =
          Put(members, Key(t),
              [members[Key(t)] EXCEPT
                  !.nick = UpdatedMember(members[Key(t)], Cur(t)).nick,
                  !.roles = UpdatedMember(members[Key(t)], Cur(t)).roles,
                  !.joined_at = UpdatedMember(members[Key(t)], Cur(t)).joined_at,
                  !.pending = UpdatedMember(members[Key(t)], Cur(t)).pending])
    /\ Goto(t, "mu_drop")
    /\ UNCHANGED <<guild_members, user_guilds, users, config, call, loc, held,
                   trace, started, last>>

MuDrop(t) == Release(t, "mu_drop", "done")

\* ---------------------------------------------------------------- queries
\* The map an accessor reads.
QueryTable(op) ==
    CASE op = "QueryMember" -> "members"
      [] op = "QueryRoster" -> "guild_members"
      [] op = "QueryUser" -> "users"

\* The value an accessor finds, as an Option.
QueryValue(cl) ==
    CASE cl.op = "QueryMember" ->
            IF <<cl.g, cl.u>> \in DOMAIN members
            THEN Some(members[<<cl.g, cl.u>>]) ELSE None
      [] cl.op = "QueryRoster" ->
            IF cl.g \in DOMAIN guild_members
            THEN Some(guild_members[cl.g]) ELSE None
      [] cl.op = "QueryUser" ->
            IF cl.u \in DOMAIN users THEN Some(users[cl.u]) ELSE None
\* Mutant: the accessor takes the entry out of the map.
QGetTake(t) ==
    /\ pc[t] = "q_get"
    /\ Lock(t, QueryTable(call[t].op), "r")
    /\ loc' = [loc EXCEPT ![t].seen = QueryValue(call[t])]
    /\ members' = IF call[t].op = "QueryMember"
                  THEN Del(members, <<call[t].g, call[t].u>>) ELSE members
    /\ guild_members' = IF call[t].op = "QueryRoster"
                        THEN Del(guild_members, call[t].g) ELSE guild_members
    /\ users' = IF call[t].op = "QueryUser" THEN Del(users, call[t].u) ELSE users
    /\ Goto(t, "q_drop")
    /\ UNCHANGED <<user_guilds, config, call, started, last>>

\* map.get(&key).map(|r| r.clone()): the value is copied under a read guard.
QGet(t) ==
    /\ pc[t] = "q_get"
    /\ Lock(t, QueryTable(call[t].op), "r")
    /\ loc' = [loc EXCEPT ![t].seen = QueryValue(call[t])]
    /\ Goto(t, "q_drop")
    /\ UNCHANGED <<tables, config, call, started, last>>

QDrop(t) == Release(t, "q_drop", "done")

\* -------------------------------------------------------------- ErrorCode
\* An ErrorCode value: a named variant, or Other(n).
Named(v) == [variant |-> v, other |-> 0]
Other(n) == [variant |-> "Other", other |-> n]

\* The arms of ErrorCode::num, but the last (Other).
NumTable ==
    ("GeneralError" :> 0) @@ ("UnknownAccount" :> 10001) @@
    ("UnknownApplication" :> 10002) @@ ("UnknownChannel" :> 10003) @@
    ("UnknownGuild" :> 10004) @@ ("UnknownIntegration" :> 10005) @@
    ("UnknownInvite" :> 10006) @@ ("UnknownMember" :> 10007) @@
    ("UnknownMessage" :> 10008) @@ ("UnknownPermissionOverwrite" :> 10009) @@
    ("UnknownProvider" :> 10010) @@ ("UnknownRole" :> 10011) @@
    ("UnknownToken" :> 10012) @@ ("UnknownUser" :> 10013) @@
    ("UnknownEmoji" :> 10014) @@ ("UnknownWebhook" :> 10015) @@
    ("UnknownWebhookService" :> 10016) @@ ("UnknownSession" :> 10020) @@
    ("UnknownBan" :> 10026) @@ ("UnknownSKU" :> 10027) @@
    ("UnknownStoreListing" :> 10028) @@ ("UnknownEntitlement" :> 10029) @@
    ("UnknownBuild" :> 10030) @@ ("UnknownLobby" :> 10031) @@
    ("UnknownBranch" :> 10032) @@ ("UnknownStoreDirectoryLayout" :> 10033) @@
    ("UnknownRedistributable" :> 10036) @@ ("UnknownGiftCode" :> 10038) @@
    ("UnknownStream" :> 10049) @@
    ("UnknownPremiumServerSubscribeCooldown" :> 10050) @@
    ("UnknownGuildTemplate" :> 10057) @@
    ("UnknownDiscoverableServerCategory" :> 10059) @@
    ("UnknownSticker" :> 10060) @@ ("UnknownInteraction" :> 10062) @@
    ("UnknownApplicationCommand" :> 10063) @@
    ("UnknownApplicationCommandPermissions" :> 10066) @@
    ("UnknownStageInstance" :> 10067) @@
    ("UnknownGuildMemberVerificationForm" :> 10068) @@
    ("UnknownGuildWelcomeScreen" :> 10069) @@
    ("UnknownGuildScheduledEvent" :> 10070) @@
    ("UnknownGuildScheduledEventUser" :> 10071) @@
    ("BotsCannotUseEndpoint" :> 20001) @@
    ("OnlyBotsCanUseEndpoint" :> 20002) @@
    ("ExplicitContentSendingBlocked" :> 20009) @@
    ("UnauthorizedApplicationAction" :> 20012) @@
    ("SlowModeRateLimitReached" :> 20016) @@ ("NotAccountOwner" :> 20018) @@
    ("AnnouncementRateLimitReached" :> 20022) @@
    ("ChannelRateLimitReached" :> 20028) @@ ("UnallowedWords" :> 20031) @@
    ("GuildPremiumTooLow" :> 20035) @@ ("MaximumGuildsReached" :> 30001) @@
    ("MaximumFriendsReached" :> 30002) @@ ("MaximumPinsReached" :> 30003) @@
    ("MaximumRecipientsReached" :> 30004) @@
    ("MaximumRolesReached" :> 30005) @@ ("MaximumWebhooksReached" :> 30007) @@
    ("MaximumEmojisReached" :> 30008) @@
    ("MaximumReactionsReached" :> 30010) @@
    ("MaximumGuildChannelsReached" :> 30013) @@
    ("MaximumAttachmentsReached" :> 30015) @@
    ("MaximumInvitesReached" :> 30016) @@
    ("MaximumAnimatedEmojisReached" :> 30018) @@
    ("MaximumGuildMembersReached" :> 30019) @@
    ("MaximumServerCategoriesReached" :> 30030) @@
    ("GuildTemplateAlreadyExist" :> 30031) @@
    ("ThreadMaxParticipants" :> 30033) @@
    ("MaximumNonGuildBansReached" :> 30035) @@
    ("MaximumGuildBansFetchesReached" :> 30037) @@
    ("MaximumStickersReached" :> 30039) @@
    ("MaximumPruneRequestsReached" :> 30040) @@ ("Unauthorized" :> 40001) @@
    ("AccountNeedsVerification" :> 40002) @@
    ("OpeningDirectMessageRateLimitReached" :> 40003) @@
    ("RequestEntityTooLarge" :> 40005) @@
    ("FeatureTemporarilyDisabled" :> 40006) @@
    ("UserBannedFromGuild" :> 40007) @@ ("UserNotInVoice" :> 40032) @@
    ("MessageAlreadyCrossposted" :> 40033) @@
    ("CommandNameAlreadyExists" :> 40041) @@ ("Missingaccess" :> 50001) @@
    ("InvalidAccountType" :> 50002) @@ ("InvalidDMChannelAction" :> 50003) @@
    ("GuildWidgetDisabled" :> 50004) @@
    ("MessageNotAuthoredByUser" :> 50005) @@ ("EmptyMessage" :> 50006) @@
    ("CannotSendMessageToUser" :> 50007) @@
    ("CannotSendMessagesInVoiceChannel" :> 50008) @@
    ("VerificationLevelTooHigh" :> 50009) @@
    ("OAuthApplicationHasNoBot" :> 50010) @@
    ("OAuthApplicationLimitReached" :> 50011) @@
    ("InvalidOAuthSstate" :> 50012) @@ ("PermissionsLacking" :> 50013) @@
    ("InvalidAuthenticationTokenProvided" :> 50014) @@
    ("NoteTooLong" :> 50015) @@ ("InvalidMessageDeleteRange" :> 50016) @@
    ("MessagePinnedInWrongChannel" :> 50019) @@
    ("InviteCodeInvalidOrTaken" :> 50020) @@
    ("InvalidActionOnSystemMessage" :> 50021) @@
    ("CannotExecuteActionOnChannelType" :> 50024) @@
    ("InvalidOAuthAccessToken" :> 50025) @@ ("MissingOAuthScope" :> 50026) @@
    ("InvalidWebhookToken" :> 50027) @@ ("InvalidRole" :> 50028) @@
    ("InvalidRecipient" :> 50033) @@ ("MessageTooOldToBulkDelete" :> 50034) @@
    ("InvalidFormBodyOrContentType" :> 50035) @@
    ("InviteAcceptedToGuildBotNotIn" :> 50036) @@
    ("InvalidApiVersion" :> 50041) @@ ("CannotSelfRedeemGift" :> 50054) @@
    ("PaymentRequiredForGift" :> 50070) @@
    ("CommunityGuildRequired" :> 50074) @@ ("InvalidStickerSent" :> 50081) @@
    ("ThreadArchived" :> 50083) @@
    ("ThreadInvalidNotificationSettings" :> 50084) @@
    ("ThreadInvalidBeforeValue" :> 50085) @@
    ("ServerNotAvailableLocation" :> 50095) @@
    ("ServerNeedsMonetiazation" :> 50097) @@ ("TwoFactorRequired" :> 60003) @@
    ("NoSuchUser" :> 80004) @@ ("ReactionBlocked" :> 90001) @@
    ("ApiResourceOverloaded" :> 130000) @@ ("StageAlreadyOpen" :> 150006) @@
    ("ThreadAlreadyCreated" :> 160004) @@ ("ThreadLocked" :> 160005) @@
    ("MaxActiveThreads" :> 160006) @@
    ("MaxActiveAnnouncementThreads" :> 160007)

\* The arms of From<u64>::from, but the last (other => Self::Other(other)).
FromTable ==
    (0 :> "GeneralError") @@ (10001 :> "UnknownAccount") @@
    (10002 :> "UnknownApplication") @@ (10003 :> "UnknownChannel") @@
    (10004 :> "UnknownGuild") @@ (10005 :> "UnknownIntegration") @@
    (10006 :> "UnknownInvite") @@ (10007 :> "UnknownMember") @@
    (10008 :> "UnknownMessage") @@ (10009 :> "UnknownPermissionOverwrite") @@
    (10010 :> "UnknownProvider") @@ (10011 :> "UnknownRole") @@
    (10012 :> "UnknownToken") @@ (10013 :> "UnknownUser") @@
    (10014 :> "UnknownEmoji") @@ (10015 :> "UnknownWebhook") @@
    (10016 :> "UnknownWebhookService") @@ (10020 :> "UnknownSession") @@
    (10026 :> "UnknownBan") @@ (10027 :> "UnknownSKU") @@
    (10028 :> "UnknownStoreListing") @@ (10029 :> "UnknownEntitlement") @@
    (10030 :> "UnknownBuild") @@ (10031 :> "UnknownLobby") @@
    (10032 :> "UnknownBranch") @@ (10033 :> "UnknownStoreDirectoryLayout") @@
    (10036 :> "UnknownRedistributable") @@ (10038 :> "UnknownGiftCode") @@
    (10049 :> "UnknownStream") @@
    (10050 :> "UnknownPremiumServerSubscribeCooldown") @@
    (10057 :> "UnknownGuildTemplate") @@
    (10059 :> "UnknownDiscoverableServerCategory") @@
    (10060 :> "UnknownSticker") @@ (10062 :> "UnknownInteraction") @@
    (10063 :> "UnknownApplicationCommand") @@
    (10066 :> "UnknownApplicationCommandPermissions") @@
    (10067 :> "UnknownStageInstance") @@
    (10068 :> "UnknownGuildMemberVerificationForm") @@
    (10069 :> "UnknownGuildWelcomeScreen") @@
    (10070 :> "UnknownGuildScheduledEvent") @@
    (10071 :> "UnknownGuildScheduledEventUser") @@
    (20001 :> "BotsCannotUseEndpoint") @@
    (20002 :> "OnlyBotsCanUseEndpoint") @@
    (20022 :> "AnnouncementRateLimitReached") @@
    (20009 :> "ExplicitContentSendingBlocked") @@
    (20012 :> "UnauthorizedApplicationAction") @@
    (20016 :> "SlowModeRateLimitReached") @@ (20018 :> "NotAccountOwner") @@
    (20028 :> "ChannelRateLimitReached") @@ (20031 :> "UnallowedWords") @@
    (20035 :> "GuildPremiumTooLow") @@ (30001 :> "MaximumGuildsReached") @@
    (30002 :> "MaximumFriendsReached") @@ (30003 :> "MaximumPinsReached") @@
    (30004 :> "MaximumRecipientsReached") @@
    (30005 :> "MaximumRolesReached") @@ (30007 :> "MaximumWebhooksReached") @@
    (30008 :> "MaximumEmojisReached") @@
    (30010 :> "MaximumReactionsReached") @@
    (30013 :> "MaximumGuildChannelsReached") @@
    (30015 :> "MaximumAttachmentsReached") @@
    (30016 :> "MaximumInvitesReached") @@
    (30018 :> "MaximumAnimatedEmojisReached") @@
    (30019 :> "MaximumGuildMembersReached") @@
    (30030 :> "MaximumServerCategoriesReached") @@
    (30031 :> "GuildTemplateAlreadyExist") @@
    (30033 :> "ThreadMaxParticipants") @@
    (30035 :> "MaximumNonGuildBansReached") @@
    (30037 :> "MaximumGuildBansFetchesReached") @@
    (30039 :> "MaximumStickersReached") @@
    (30040 :> "MaximumPruneRequestsReached") @@ (40001 :> "Unauthorized") @@
    (40002 :> "AccountNeedsVerification") @@
    (40003 :> "OpeningDirectMessageRateLimitReached") @@
    (40005 :> "RequestEntityTooLarge") @@
    (40006 :> "FeatureTemporarilyDisabled") @@
    (40007 :> "UserBannedFromGuild") @@ (40032 :> "UserNotInVoice") @@
    (40033 :> "MessageAlreadyCrossposted") @@
    (40041 :> "CommandNameAlreadyExists") @@ (50001 :> "Missingaccess") @@
    (50002 :> "InvalidAccountType") @@ (50003 :> "InvalidDMChannelAction") @@
    (50004 :> "GuildWidgetDisabled") @@
    (50005 :> "MessageNotAuthoredByUser") @@ (50006 :> "EmptyMessage") @@
    (50007 :> "CannotSendMessageToUser") @@
    (50008 :> "CannotSendMessagesInVoiceChannel") @@
    (50009 :> "VerificationLevelTooHigh") @@
    (50010 :> "OAuthApplicationHasNoBot") @@
    (50011 :> "OAuthApplicationLimitReached") @@
    (50012 :> "InvalidOAuthSstate") @@ (50013 :> "PermissionsLacking") @@
    (50014 :> "InvalidAuthenticationTokenProvided") @@
    (50015 :> "NoteTooLong") @@ (50016 :> "InvalidMessageDeleteRange") @@
    (50019 :> "MessagePinnedInWrongChannel") @@
    (50020 :> "InviteCodeInvalidOrTaken") @@
    (50021 :> "InvalidActionOnSystemMessage") @@
    (50024 :> "CannotExecuteActionOnChannelType") @@
    (50025 :> "InvalidOAuthAccessToken") @@ (50026 :> "MissingOAuthScope") @@
    (50027 :> "InvalidWebhookToken") @@ (50028 :> "InvalidRole") @@
    (50033 :> "InvalidRecipient") @@ (50034 :> "MessageTooOldToBulkDelete") @@
    (50035 :> "InvalidFormBodyOrContentType") @@
    (50036 :> "InviteAcceptedToGuildBotNotIn") @@
    (50041 :> "InvalidApiVersion") @@ (50054 :> "CannotSelfRedeemGift") @@
    (50070 :> "PaymentRequiredForGift") @@
    (50074 :> "CommunityGuildRequired") @@ (50081 :> "InvalidStickerSent") @@
    (50083 :> "ThreadArchived") @@
    (50084 :> "ThreadInvalidNotificationSettings") @@
    (50085 :> "ThreadInvalidBeforeValue") @@
    (50095 :> "ServerNotAvailableLocation") @@
    (50097 :> "ServerNeedsMonetiazation") @@ (60003 :> "TwoFactorRequired") @@
    (80004 :> "NoSuchUser") @@ (90001 :> "ReactionBlocked") @@
    (130000 :> "ApiResourceOverloaded") @@ (150006 :> "StageAlreadyOpen") @@
    (160004 :> "ThreadAlreadyCreated") @@ (160005 :> "ThreadLocked") @@
    (160006 :> "MaxActiveThreads") @@
    (160007 :> "MaxActiveAnnouncementThreads")

\* The named variants of the enum.
NamedCodes == {Named(v) : v \in DOMAIN NumTable}
\* Mutant: UnknownAccount reports the number of UnknownApplication.
NumShared(c) ==
    IF c.variant = "Other" THEN c.other
    ELSE IF c.variant = "UnknownAccount" THEN NumTable["UnknownApplication"]
    ELSE NumTable[c.variant]

\* ErrorCode::num
Num(c) == IF c.variant = "Other" THEN c.other ELSE NumTable[c.variant]
\* Mutant: the arm of 160007 yields the variant of 160006.
FromWrongArm(n) ==
    IF n \in DOMAIN FromTable
    THEN Named(FromTable[IF n = 160007 THEN 160006 ELSE n])
    ELSE Other(n)

\* <ErrorCode as From<u64>>::from
From(n) == IF n \in DOMAIN FromTable THEN Named(FromTable[n]) ELSE Other(n)

\* The largest number enumerated (2^31 - 1), standing for u64::MAX.
MaxCode == 2147483647

\* The numbers converted: every number of an arm, the numbers next to them,
\* and the largest.
CodeInputs ==
    DOMAIN FromTable \cup {n + 1 : n \in DOMAIN FromTable}
        \cup {n - 1 : n \in DOMAIN FromTable \ {0}} \cup {MaxCode}

NoConv == [op |-> "none", n |-> 0, code |-> Named("GeneralError"),
           out_n |-> 0, out_code |-> Named("GeneralError")]

\* ErrorCode::from(n).num()
FromThenNum(n) ==
    /\ conv' = [op |-> "from", n |-> n, code |-> From(n),
                out_n |-> Num(From(n)), out_code |-> From(n)]
    /\ UNCHANGED <<tables, wanted, universe, threadVars, started, last, wire, cmd,
                   shown>>

\* ErrorCode::from(c.num()), as assert_error_code does for the variant c.
NumThenFrom(c) ==
    /\ conv' = [op |-> "num", n |-> Num(c), code |-> c,
                out_n |-> Num(c), out_code |-> From(Num(c))]
    /\ UNCHANGED <<tables, wanted, universe, threadVars, started, last, wire, cmd,
                   shown>>

\* ------------------------------------------------------------ InviteCreate
\* (model/src/gateway/payload/invite_create.rs)
\* serde_test tokens, as one shape of record.
Token(kind, text, num) == [kind |-> kind, text |-> text, num |-> num]
Str(s) == Token("Str", s, 0)
U64(n) == Token("U64", "", n)
U8(n) == Token("U8", "", n)
Bool(b) == Token("Bool", IF b THEN "true" ELSE "false", 0)
NewtypeStruct(name) == Token("NewtypeStruct", name, 0)
Struct(name, len) == Token("Struct", name, len)
StructEnd == Token("StructEnd", "", 0)
SomeToken == Token("Some", "", 0)
NoneToken == Token("None", "", 0)

\* Ids are written as decimal strings.
IdText == (1 :> "1") @@ (2 :> "2")
IdFromText(s) == CHOOSE n \in DOMAIN IdText : IdText[n] = s

\* The fields of InviteCreate in declaration order, and those that carry
\* #[serde(skip_serializing_if = "Option::is_none")].
InviteFields ==
    <<"channel_id", "code", "created_at", "guild_id", "inviter", "max_age",
      "max_uses", "target_user_type", "target_user", "temporary", "uses">>
Skipped == {"inviter", "target_user_type", "target_user"}

\* PartialUser: four fields, none skipped.
PartialUsers ==
    [avatar : {None, Some("aaaaaaaaaaaaaaaaaaaaaaaaaaaaaaaa")},
     discriminator : {"123"}, id : {1}, username : {"twilight"}]

\* Values of InviteCreate.  User and TargetType are defined in other files
\* and carried as one value each.
InviteCreates ==
    [channel_id : {1, 2}, code : {"aaaaaaa"},
     created_at : {"2021-01-01T00:00:00+00:00"}, guild_id : {2},
     inviter : {None, Some("inviter")}, max_age : {0, 3600}, max_uses : {5},
     target_user_type : {None, Some("Stream")},
     target_user : {None} \cup {Some(p) : p \in PartialUsers},
     temporary : BOOLEAN, uses : {0, 255}]

\* An Option that is written: Token::Some and the value, or Token::None.
WriteOption(o, toks) == IF o = None THEN <<NoneToken>> ELSE <<SomeToken>> \o toks

\* #[derive(Serialize)] for PartialUser.
WritePartialUser(p) ==
    <<Struct("PartialUser", 4), Str("avatar")>>
        \o WriteOption(p.avatar, IF p.avatar = None THEN <<>> ELSE <<Str(p.avatar[1])>>)
        \o <<Str("discriminator"), Str(p.discriminator),
             Str("id"), NewtypeStruct("UserId"), Str(IdText[p.id]),
             Str("username"), Str(p.username), StructEnd>>

\* #[derive(Deserialize)] for PartialUser, on the tokens written above.
ReadPartialUser(toks) ==
    LET off == IF toks[3].kind = "Some" THEN 1 ELSE 0
    IN  [avatar |-> IF toks[3].kind = "Some" THEN Some(toks[4].text) ELSE None,
         discriminator |-> toks[5 + off].text,
         id |-> IdFromText(toks[8 + off].text),
         username |-> toks[10 + off].text]

\* The tokens of the value of field f.
WriteField(v, f) ==
    CASE f = "channel_id" -> <<NewtypeStruct("ChannelId"), Str(IdText[v.channel_id])>>
      [] f = "code" -> <<Str(v.code)>>
      [] f = "created_at" -> <<Str(v.created_at)>>
      [] f = "guild_id" -> <<NewtypeStruct("GuildId"), Str(IdText[v.guild_id])>>
      [] f = "inviter" ->
            WriteOption(v.inviter,
                        IF v.inviter = None THEN <<>>
                        ELSE <<Token("User", v.inviter[1], 0)>>)
      [] f = "max_age" -> <<U64(v.max_age)>>
      [] f = "max_uses" -> <<U64(v.max_uses)>>
      [] f = "target_user_type" ->
            WriteOption(v.target_user_type,
                        IF v.target_user_type = None THEN <<>>
                        ELSE <<Token("TargetType", v.target_user_type[1], 0)>>)
      [] f = "target_user" ->
            WriteOption(v.target_user,
                        IF v.target_user = None THEN <<>>
                        ELSE WritePartialUser(v.target_user[1]))
      [] f = "temporary" -> <<Bool(v.temporary)>>
      [] f = "uses" -> <<U8(v.uses)>>

\* The fields of v that are written.
Written(v) == SelectSeq(InviteFields, LAMBDA f : ~ (f \in Skipped /\ v[f] = None))

\* Mutant: no field is skipped.
SerializeAll(v) ==
    [name |-> "InviteCreate", len |-> Len(InviteFields),
     entries |-> [i \in 1..Len(InviteFields) |->
                    [key |-> InviteFields[i], val |-> WriteField(v, InviteFields[i])]]]

\* #[derive(Serialize)] for InviteCreate: the struct header with the number
\* of fields written, then each written field as its name and its value.
Serialize(v) ==
    [name |-> "InviteCreate", len |-> Len(Written(v)),
     entries |-> [i \in 1..Len(Written(v)) |->
                    [key |-> Written(v)[i], val |-> WriteField(v, Written(v)[i])]]]

\* The serialized form as one list of tokens.
RECURSIVE Flatten(_, _)
Flatten(entries, i) ==
    IF i > Len(entries) THEN <<>>
    ELSE <<Str(entries[i].key)>> \o entries[i].val \o Flatten(entries, i + 1)
Tokens(ser) == <<Struct(ser.name, ser.len)>> \o Flatten(ser.entries, 1) \o <<StructEnd>>

\* The value written for field f, or None when the field was not written.
Entry(ser, f) ==
    LET at == {i \in 1..Len(ser.entries) : ser.entries[i].key = f}
    IN  IF at = {} THEN None ELSE Some(ser.entries[CHOOSE i \in at : TRUE].val)

\* An optional field read back: absent or Token::None gives None.
ReadOption(ser, f) ==
    IF Entry(ser, f) = None \/ Entry(ser, f)[1][1].kind = "None" THEN <<>>
    ELSE Tail(Entry(ser, f)[1])

\* #[derive(Deserialize)] for InviteCreate: every field by its name; a
\* missing Option field is None, a missing field of another type an error.
Deserialize(ser) ==
    IF \E f \in {InviteFields[i] : i \in 1..Len(InviteFields)} \ Skipped :
          Entry(ser, f) = None
    THEN [error |-> "missing field"]
    ELSE [channel_id |-> IdFromText(Entry(ser, "channel_id")[1][2].text),
          code |-> Entry(ser, "code")[1][1].text,
          created_at |-> Entry(ser, "created_at")[1][1].text,
          guild_id |-> IdFromText(Entry(ser, "guild_id")[1][2].text),
          inviter |-> IF ReadOption(ser, "inviter") = <<>> THEN None
                      ELSE Some(ReadOption(ser, "inviter")[1].text),
          max_age |-> Entry(ser, "max_age")[1][1].num,
          max_uses |-> Entry(ser, "max_uses")[1][1].num,
          target_user_type |->
              IF ReadOption(ser, "target_user_type") = <<>> THEN None
              ELSE Some(ReadOption(ser, "target_user_type")[1].text),
          target_user |->
              IF ReadOption(ser, "target_user") = <<>> THEN None
              ELSE Some(ReadPartialUser(ReadOption(ser, "target_user"))),
          temporary |-> Entry(ser, "temporary")[1][1].text = "true",
          uses |-> Entry(ser, "uses")[1][1].num]

NoWire == [op |-> "none"]

\* serde_test::assert_tokens(&value, ..): the value is serialized and the
\* serialized form is read back.
RoundTrip(v) ==
    /\ wire' = [op |-> "roundtrip", value |-> v, ser |-> Serialize(v),
                back |-> Deserialize(Serialize(v))]
    /\ UNCHANGED <<tables, wanted, universe, threadVars, started, last, conv, cmd,
                   shown>>

\* ---------------------------------------------- CreateGlobalMessageCommand
\* (http/src/request/application/command/create_global_command/message.rs)
ApplicationIds == {1, 2}
CommandNames == {"a", "b", "c"}
\* The errors Request::builder(..).json(..) may return.
BuildErrors == {"json"}

\* No builder made yet; the client has been handed nothing.
NoCommand == [phase |-> "none", sent |-> <<>>]

\* The CommandBorrowed that request() gives to json(), under the route.
CommandBody(c) ==
    [application_id |-> Some(c.application_id),
     default_permission |-> c.default_permission,
     description |-> None,
     kind |-> "Message",
     name |-> c.name,
     options |-> None]
RequestOf(c) ==
    [route |-> [name |-> "CreateGlobalCommand", application_id |-> c.application_id],
     body |-> CommandBody(c)]

\* CreateGlobalMessageCommand::new
NewCommand(app, name) ==
    /\ cmd.phase = "none"
    /\ cmd' = [phase |-> "building", application_id |-> app,
               default_permission |-> None, name |-> name, sets |-> <<>>,
               sent |-> cmd.sent]
    /\ UNCHANGED <<tables, wanted, universe, threadVars, started, last, conv, wire,
                   shown>>

\* Mutant: a value already set is kept.
DefaultPermissionFirst(default) ==
    /\ cmd.phase = "building"
    /\ Len(cmd.sets) < MaxSets
    /\ cmd' = [cmd EXCEPT !.default_permission = OrElse(@, Some(default)),
                          !.sets = Append(@, default)]
    /\ UNCHANGED <<tables, wanted, universe, threadVars, started, last, conv, wire,
                   shown>>

\* self.default_permission = Some(default); `sets` keeps the values given.
DefaultPermission(default) ==
    /\ cmd.phase = "building"
    /\ Len(cmd.sets) < MaxSets
    /\ cmd' = [cmd EXCEPT !.default_permission = Some(default),
                          !.sets = Append(@, default)]
    /\ UNCHANGED <<tables, wanted, universe, threadVars, started, last, conv, wire,
                   shown>>

\* match self.request() { Ok(request) => self.http.request(request),
\*                        Err(source) => ResponseFuture::error(source) }
\* Whether json() fails is not decided in this file: either may happen.
Exec(built) ==
    /\ cmd.phase = "building"
    /\ cmd' = [phase |-> "done", application_id |-> cmd.application_id,
               default_permission |-> cmd.default_permission,
               name |-> cmd.name, sets |-> cmd.sets,
               built |-> built,
               sent |-> IF built.ok THEN Append(cmd.sent, RequestOf(cmd))
                        ELSE cmd.sent,
               future |-> IF built.ok
                          THEN [state |-> "in flight", error |-> "-"]
                          ELSE [state |-> "error", error |-> built.error]]
    /\ UNCHANGED <<tables, wanted, universe, threadVars, started, last, conv, wire,
                   shown>>

\* --------------------------------------------------------- MessageApiError
\* (http/src/api_error.rs, l.761-813)
\* impl Display for MessageApiErrorEmbedField
FieldText == ("Fields" :> "fields") @@ ("Timestamp" :> "timestamp")

\* The embed lists formatted: None, or a list of 0..MaxFields fields.
EmbedInputs == {None} \cup {Some(l) : l \in SeqsUpTo(DOMAIN FieldText, MaxFields)}

\* usize::saturating_sub(1)
SaturatingPred(n) == IF n = 0 THEN 0 ELSE n - 1

\* for (idx, field) in embed.iter().enumerate() {
\*     Display::fmt(field, f)?;
\*     if idx == field_count { f.write_str(", ")?; } }
\* The strings written from the field at position i on; positions count
\* from 1 here and idx from 0 in the code.
RECURSIVE WriteFields(_, _, _)
WriteFields(embed, i, field_count) ==
    IF i > Len(embed) THEN <<>>
    ELSE <<FieldText[embed[i]]>>
            \o (IF i - 1 = field_count THEN <<", ">> ELSE <<>>)
            \o WriteFields(embed, i + 1, field_count)

\* impl Display for MessageApiError: the strings written to the formatter,
\* in order.
Fmt(e) ==
    <<"message fields invalid: ">>
        \o (IF e.embed # None
            THEN <<"embed (">>
                    \o WriteFields(e.embed[1], 1, SaturatingPred(Len(e.embed[1])))
                    \o <<")">>
            ELSE <<>>)

NoShown == [op |-> "none"]

\* error.to_string()
Show(embed) ==
    /\ shown' = [op |-> "display", embed |-> embed,
                 out |-> Fmt([embed |-> embed])]
    /\ UNCHANGED <<tables, wanted, universe, threadVars, started, last, conv, wire,
                   cmd>>

\* ---------------------------------------------------------- specifications
\* The state after InMemoryCache::new(): every map empty, no handler running.
Empty ==
    /\ members = <<>>
    /\ guild_members = <<>>
    /\ user_guilds = <<>>
    /\ users = <<>>
    /\ wanted \in BOOLEAN
    /\ pc = [t \in Threads |-> "idle"]
    /\ call = [t \in Threads |-> IdleCall]
    /\ loc = [t \in Threads |-> IdleLoc]
    /\ held = [t \in Threads |-> <<>>]
    /\ trace = [t \in Threads |-> <<>>]
    /\ started = 0
    /\ last = NoLast
    /\ conv = NoConv
    /\ wire = NoWire
    /\ cmd = NoCommand
    /\ shown = NoShown

Init == Empty /\ universe \in SeqUniverses
ConcInit == Empty /\ universe \in ConcUniverses
RichInit == Empty /\ universe \in RichUniverses
PairInit == Empty /\ universe \in PairUniverses

\* One step of the handler thread t is running.
Step(t) ==
    \/ Gate(t) \/ Return(t)
    \/ MrMembers(t) \/ MrMembersDrop(t) \/ MrRoster(t) \/ MrRosterDrop(t)
    \/ MrGuilds(t) \/ MrGuildsDrop(t) \/ MrUsers(t) \/ MrUsersDrop(t)
    \/ CmGet(t) \/ CmGetDrop(t) \/ CuUsers(t) \/ CuUsersDrop(t)
    \/ CuGuilds(t) \/ CuGuildsDrop(t) \/ CmInsert(t) \/ CmInsertDrop(t)
    \/ CmRoster(t) \/ CmRosterDrop(t) \/ MaRoster(t) \/ MaRosterDrop(t)
    \/ McEmpty(t) \/ McNext(t) \/ McRoster(t) \/ McRosterDrop(t)
    \/ PmGet(t) \/ PmGetDrop(t) \/ PmRoster(t) \/ PmRosterDrop(t)
    \/ PmInsert(t) \/ PmInsertDrop(t)
    \/ ImGet(t) \/ ImGetDrop(t) \/ ImRoster(t) \/ ImRosterDrop(t)
    \/ ImInsert(t) \/ ImInsertDrop(t)
    \/ MuGet(t) \/ MuWrite(t) \/ MuDrop(t)
    \/ QGet(t) \/ QDrop(t)

\* Events applied one handler at a time.
Next == \E t \in Threads : StartSeq(t) \/ Step(t)
Spec == Init /\ [][Next]_vars

\* Events applied one handler at a time to one key, with every field value.
RichSpec == RichInit /\ [][Next]_vars

\* Handlers of several threads, interleaved access by access.
ConcNext == \E t \in Threads : StartConc(t) \/ Step(t)
ConcSpec == ConcInit /\ [][ConcNext]_vars

\* Handlers on one key: one alone, then up to MaxOps - 1 that may overlap.
PairNext == \E t \in Threads : StartPair(t) \/ Step(t)
PairSpec == PairInit /\ [][PairNext]_vars

\* Events applied one handler at a time, a MemberRemove possibly twice in a
\* row.
TwiceNext == \E t \in Threads : StartSeq(t) \/ Again(t) \/ Step(t)
TwiceSpec == Init /\ [][TwiceNext]_vars

\* Conversions between numbers and error codes, one after another.
CodeInit == Empty /\ wanted /\ universe \in ConcUniverses
CodeNext ==
    \/ \E n \in CodeInputs : FromThenNum(n)
    \/ \E c \in NamedCodes : NumThenFrom(c)
CodeSpec == CodeInit /\ [][CodeNext]_vars

\* InviteCreate values serialized and read back, one after another.
WireInit == Empty /\ wanted /\ universe \in ConcUniverses
WireNext == \E v \in InviteCreates : RoundTrip(v)
WireSpec == WireInit /\ [][WireNext]_vars

\* One CreateGlobalMessageCommand configured and executed.
CommandInit == Empty /\ wanted /\ universe \in ConcUniverses
CommandNext ==
    \/ \E app \in ApplicationIds, name \in CommandNames : NewCommand(app, name)
    \/ \E default \in BOOLEAN : DefaultPermission(default)
    \/ \E built \in {[ok |-> TRUE, error |-> "-"]}
                        \cup {[ok |-> FALSE, error |-> e] : e \in BuildErrors} :
          Exec(built)
CommandSpec == CommandInit /\ [][CommandNext]_vars

\* MessageApiError values formatted, one after another.
ShowInit == Empty /\ wanted /\ universe \in ConcUniverses
ShowNext == \E embed \in EmbedInputs : Show(embed)
ShowSpec == ShowInit /\ [][ShowNext]_vars

\* Every thread that can take a step eventually takes one.
FairSpec == ConcSpec /\ \A t \in Threads : WF_vars(Step(t))

Quiescent == \A t \in Threads : pc[t] = "idle"

\* No handler is part-way through its steps.
AtRest == \A t \in Threads : pc[t] \in {"idle", "done"}

\* The membership set of u in the cache before the event of `last`.
PreMembership(u) ==
    IF u \in DOMAIN last.pre.user_guilds THEN last.pre.user_guilds[u] ELSE {}

\* MemberRemove(g, u) has just been applied with MEMBER selected.
Removed == pc[1] = "done" /\ last.op = "MemberRemove" /\ Wants

\* ------------------------------------------------------------------ claims

\* C1: with events applied one handler at a time, after every handler a
\* Member record exists at (g, u) exactly when u is in the roster of g.
C1_MemberIffRoster ==
    AtRest => \A g \in AllGuilds, u \in AllUsers : HasMember(g, u) <=> u \in Roster(g)

\* C1 witness: a MemberRemove has taken a cached member out of a roster that
\* still holds another member.
C1_Witness ==
    /\ Removed
    /\ <<last.g, last.u>> \in DOMAIN last.pre.members
    /\ \E u \in AllUsers : u # last.u /\ HasMember(last.g, u) /\ u \in Roster(last.g)

\* C2: with events applied one handler at a time, after every handler a User
\* record exists for u exactly when the membership set of u is non-empty.
C2_UserIffMembership ==
    AtRest => \A u \in AllUsers : HasUser(u) <=> Membership(u) # {}

\* C2 witness: a MemberRemove has taken the user out of one guild and the
\* user, still in another, is still cached.
C2_Witness ==
    /\ Removed
    /\ last.g \in PreMembership(last.u)
    /\ HasUser(last.u)
    /\ Membership(last.u) # {}

\* Threads t1 and t2 have both finished their handlers, which may have
\* overlapped, and no other handler is running.
BothDone(t1, t2) ==
    /\ t1 # t2
    /\ pc[t1] = "done"
    /\ pc[t2] = "done"
    /\ \A s \in Threads \ {t1, t2} : pc[s] = "idle"

\* C3: when an add handler and a MemberRemove for the same (guild, user) key
\* have run concurrently and both have finished, the Member record exists
\* exactly when the user is in the guild's roster.
C3_AddRemoveSameKey ==
    \A t1, t2 \in Threads :
        (/\ BothDone(t1, t2)
         /\ Wants
         /\ call[t1].op \in {"MemberAdd", "CachePartial", "CacheInteraction"}
         /\ call[t2].op = "MemberRemove"
         /\ call[t1].g = call[t2].g
         /\ call[t1].u = call[t2].u)
        => (HasMember(call[t1].g, call[t1].u) <=> call[t1].u \in Roster(call[t1].g))

\* C4: when MemberRemove(B, u) and MemberAdd(A, u), A # B, have run
\* concurrently and both have finished, the User record of u exists exactly
\* when the membership set of u is non-empty.
C4_RemoveAddOtherGuild ==
    \A t1, t2 \in Threads :
        (/\ BothDone(t1, t2)
         /\ Wants
         /\ call[t1].op = "MemberRemove"
         /\ call[t2].op = "MemberAdd"
         /\ call[t1].g # call[t2].g
         /\ call[t1].u = call[t2].u)
        => (HasUser(call[t1].u) <=> Membership(call[t1].u) # {})

\* Some handler is running.
Running == \E t \in Threads : pc[t] # "idle"

\* C5: whenever a handler is running some thread can take a step (no
\* deadlock), and under fair scheduling every started handler returns.
C5_NoDeadlockAndReturn ==
    /\ [](Running => \E t \in Threads : ENABLED Step(t))
    /\ \A t \in Threads : (pc[t] # "idle") ~> (pc[t] = "idle")

\* C5 witness: every handler of the run has been started and a thread,
\* part-way through its handler, is waiting for a lock another thread holds.
C5_Witness ==
    \E t, s \in Threads :
        /\ t # s
        /\ pc[t] # "idle"
        /\ ~ ENABLED Step(t)
        /\ held[s] # <<>>
        /\ started = MaxOps

\* C6: no thread ever holds more than one guard: it never locks a map while
\* it holds a guard on another map or on the same one.
C6_OneGuardAtATime == \A t \in Threads : Len(held[t]) <= 1

\* C6 witness: two threads hold a guard each, on different maps.
C6_Witness ==
    \E t, s \in Threads :
        /\ t # s
        /\ Len(held[t]) = 1
        /\ Len(held[s]) = 1
        /\ held[t][1][1] # held[s][1][1]

\* The order in which MemberRemove reaches the shared maps.
RemoveOrder == <<"members", "guild_members", "user_guilds", "users">>

\* C7: a MemberRemove locks the maps in the order members, guild_members,
\* user_guilds, users, holding no guard when it locks the next one; once let
\* through the gate it reaches the first three, and users when remove_user.
C7_RemoveOrder ==
    \A t \in Threads :
        call[t].op = "MemberRemove" =>
            /\ Len(trace[t]) <= Len(RemoveOrder)
            /\ trace[t] = SubSeq(RemoveOrder, 1, Len(trace[t]))
            /\ pc[t] \in {"mr_members", "mr_roster", "mr_guilds", "mr_users"}
                  => held[t] = <<>>
            /\ (pc[t] = "done" /\ Wants)
                  => Len(trace[t]) = (IF loc[t].remove_user THEN 4 ELSE 3)

\* C7 witness: a MemberRemove has finished after reaching all four maps
\* while another thread was part-way through a handler.
C7_Witness ==
    \E t, s \in Threads :
        /\ call[t].op = "MemberRemove"
        /\ pc[t] = "done"
        /\ trace[t] = RemoveOrder
        /\ pc[s] \notin {"idle", "done"}

\* C8: when the membership set of u is exactly {g}, after MemberRemove(g, u)
\* the User record of u is absent and the membership set of u is empty.
C8_RemoveLastGuild ==
    (Removed /\ PreMembership(last.u) = {last.g})
        => (~ HasUser(last.u) /\ Membership(last.u) = {})

\* C8 witness: such a MemberRemove has run on a cached user.
C8_Witness ==
    /\ Removed
    /\ PreMembership(last.u) = {last.g}
    /\ last.u \in DOMAIN last.pre.users
    /\ ~ HasUser(last.u)

\* C9: when the membership set of u holds g and another guild, after
\* MemberRemove(g, u) the User record of u is still present, unchanged, and
\* the membership set of u is the previous set without g.
C9_RemoveOneOfSeveral ==
    (Removed /\ last.g \in PreMembership(last.u) /\ PreMembership(last.u) # {last.g})
        => /\ HasUser(last.u)
           /\ users[last.u] = last.pre.users[last.u]
           /\ Membership(last.u) = PreMembership(last.u) \ {last.g}

\* C9 witness: such a MemberRemove has run and left exactly one guild.
C9_Witness ==
    /\ Removed
    /\ last.g \in PreMembership(last.u)
    /\ Cardinality(PreMembership(last.u)) = 2
    /\ Cardinality(Membership(last.u)) = 1

\* C10: after every handler neither index holds an owner whose set is empty.
C10_NoEmptySets ==
    AtRest =>
        /\ \A g \in DOMAIN guild_members : guild_members[g] # {}
        /\ \A u \in DOMAIN user_guilds : user_guilds[u] # {}

\* The handler of `last` has run to its end (one handler at a time).
Applied(op) == pc[1] = "done" /\ last.op = op

\* The key of the event of `last`.
LastKey == <<last.g, last.u>>

\* C11: a MemberUpdate for a (guild, user) pair with no cached Member record
\* leaves the Member table, the User table, the roster index and the
\* membership index as they were before the event.
C11_UnknownUpdateNoop ==
    (Applied("MemberUpdate") /\ Wants /\ LastKey \notin DOMAIN last.pre.members)
        => Snapshot = last.pre

\* C11 witness: the update named a key with no record while the cache held a
\* record for another key, and the handler reached the Member table.
C11_Witness ==
    /\ Applied("MemberUpdate") /\ Wants
    /\ LastKey \notin DOMAIN last.pre.members
    /\ last.pre.members # <<>>
    /\ trace[1] # <<>>

\* C12: when MEMBER is not selected, MemberAdd, MemberChunk, MemberRemove and
\* MemberUpdate return with every table and index unchanged, and no map has
\* been accessed by the time the gate is checked nor afterwards.
C12_GateFirst ==
    /\ (pc[1] = "gate") => trace[1] = <<>>
    /\ (pc[1] = "done" /\ last.op \in Gated /\ ~ Wants)
          => Snapshot = last.pre /\ trace[1] = <<>>

\* C12 witness: a MemberRemove for a cached member returned at the gate.
C12_Witness ==
    /\ Applied("MemberRemove") /\ ~ Wants
    /\ LastKey \in DOMAIN members
    /\ last.u \in Roster(last.g)

\* A MemberUpdate has just been applied to a key that had a Member record.
UpdatedCached ==
    Applied("MemberUpdate") /\ Wants /\ LastKey \in DOMAIN last.pre.members

\* C13: after MemberUpdate on a cached Member, mute is the event's mute when
\* the event carries one and the prior mute otherwise, and independently
\* deaf is the event's deaf when carried and the prior deaf otherwise.
C13_MuteDeafMerge ==
    UpdatedCached =>
        LET prior == last.pre.members[LastKey]
            ev == last.arg[1]
            now == members[LastKey]
        IN /\ now.mute = (IF ev.mute # None THEN ev.mute ELSE prior.mute)
           /\ now.deaf = (IF ev.deaf # None THEN ev.deaf ELSE prior.deaf)

\* C13 witness: prior {mute: true, deaf: false}, the update carries only
\* deaf: true, and the record reads {mute: true, deaf: true}.
C13_Witness ==
    /\ UpdatedCached
    /\ last.pre.members[LastKey].mute = Some(TRUE)
    /\ last.pre.members[LastKey].deaf = Some(FALSE)
    /\ last.arg[1].mute = None
    /\ last.arg[1].deaf = Some(TRUE)
    /\ members[LastKey].mute = Some(TRUE)
    /\ members[LastKey].deaf = Some(TRUE)

\* C14: after MemberUpdate on a cached Member, the nickname, the role set,
\* the pending flag and the join timestamp of the record are the values the
\* event carries, whatever the record held before.
C14_AlwaysOverwritten ==
    UpdatedCached =>
        LET ev == last.arg[1]
            now == members[LastKey]
        IN /\ now.nick = ev.nick
           /\ now.roles = ev.roles
           /\ now.pending = ev.pending
           /\ now.joined_at = Some(ev.joined_at)

\* C14 witness: the record differed from the event in all four fields.
C14_Witness ==
    /\ UpdatedCached
    /\ last.pre.members[LastKey].nick # last.arg[1].nick
    /\ last.pre.members[LastKey].roles # last.arg[1].roles
    /\ last.pre.members[LastKey].pending # last.arg[1].pending
    /\ last.pre.members[LastKey].joined_at # Some(last.arg[1].joined_at)
    /\ members[LastKey].joined_at = Some(last.arg[1].joined_at)

\* The record cached at the key of `last` before the event equals, as the
\* handler compares it, the payload the event carries.
SameAsCached ==
    /\ LastKey \in DOMAIN last.pre.members
    /\ CASE last.op = "MemberAdd" ->
                EqMember(last.pre.members[LastKey], last.arg[1])
         [] last.op = "CachePartial" ->
                EqPartial(last.pre.members[LastKey], last.arg[1])
         [] last.op = "CacheInteraction" ->
                EqInteraction(last.pre.members[LastKey], last.arg[1])
         [] OTHER -> FALSE

\* C15: a MemberAdd, a partial-member caching or an interaction-member
\* caching whose payload equals what is cached at (guild, user) leaves the
\* Member table, the User table, the roster index and the membership index
\* equal to what they were before.
C15_ReAddNoop ==
    (pc[1] = "done" /\ (last.op = "MemberAdd" => Wants) /\ SameAsCached)
        => Snapshot = last.pre

\* C15 witness: a MemberAdd found an equal record and returned from
\* cache_member after the lookup, with the user in a roster of two.
C15_Witness ==
    /\ Applied("MemberAdd") /\ Wants /\ SameAsCached
    /\ Cardinality(Roster(last.g)) = 2
    /\ trace[1] = <<"members", "guild_members">>

\* C18: a MemberChunk with an empty member list leaves every table and index
\* unchanged and creates no roster entry for its guild.
C18_EmptyChunkNoop ==
    (Applied("MemberChunk") /\ Wants /\ last.arg = <<>>)
        => /\ Snapshot = last.pre
           /\ (last.g \notin DOMAIN last.pre.guild_members
                 => last.g \notin DOMAIN guild_members)

\* C18 witness: an empty chunk for a guild with no roster entry, on a cache
\* that holds a member of another guild.
C18_Witness ==
    /\ Applied("MemberChunk") /\ Wants /\ last.arg = <<>>
    /\ last.g \notin DOMAIN guild_members
    /\ members # <<>>

\* Every value the update event supplies is the value the record c holds.
Matches(c, ev) ==
    /\ ev.deaf = None \/ ev.deaf = c.deaf
    /\ ev.mute = None \/ ev.mute = c.mute
    /\ ev.nick = c.nick
    /\ ev.roles = c.roles
    /\ ev.pending = c.pending
    /\ Some(ev.joined_at) = c.joined_at

\* C16: a MemberUpdate whose supplied values all equal the cached values
\* leaves the Member record and every index unchanged; and the record a
\* MemberUpdate leaves behind holds every value the event supplied, so the
\* same event applied again is such an update and gives the same state.
C16_UpdateIdempotent ==
    UpdatedCached =>
        /\ Matches(last.pre.members[LastKey], last.arg[1]) => Snapshot = last.pre
        /\ Matches(members[LastKey], last.arg[1])

\* C16 witness: an update supplying deaf and mute found them, and every other
\* field, already in the record, and the handler wrote the record.
C16_Witness ==
    /\ UpdatedCached
    /\ last.arg[1].deaf # None
    /\ last.arg[1].mute # None
    /\ Matches(last.pre.members[LastKey], last.arg[1])
    /\ trace[1] = <<"members">>
    /\ Snapshot = last.pre

\* cache_member(g, m) run alone on the cache c: nothing when the cached record
\* equals m, else the user, the membership, the record and the roster entry.
CacheMemberOn(c, g, m) ==
    IF <<g, m.user.id>> \in DOMAIN c.members
       /\ EqMember(c.members[<<g, m.user.id>>], m)
    THEN c
    ELSE [members |-> Put(c.members, <<g, m.user.id>>, CachedFromMember(g, m)),
          guild_members |-> EntryInsert(c.guild_members, g, m.user.id),
          user_guilds |-> EntryInsert(c.user_guilds, m.user.id, g),
          users |-> Put(c.users, m.user.id, m.user)]

\* MemberAdd(g, m) run alone on the cache c.
MemberAddOn(c, g, m) ==
    [CacheMemberOn(c, g, m) EXCEPT !.guild_members = EntryInsert(@, g, m.user.id)]

\* MemberAdd(g, ms[1]), ..., MemberAdd(g, ms[n]) run one after another on c.
RECURSIVE MemberAddsOn(_, _, _)
MemberAddsOn(c, g, ms) ==
    IF ms = <<>> THEN c
    ELSE MemberAddsOn(MemberAddOn(c, g, Head(ms)), g, Tail(ms))

\* C17: one MemberChunk(g, [m1..mN]) yields the same Member table, User
\* table, roster index and membership index as MemberAdd(g, m1), ...,
\* MemberAdd(g, mN) applied in that order from the same cache, for lists
\* that repeat a user id too (MemberAddOn is what the MemberAdd handler
\* yields).
C17_ChunkAsAdds ==
    /\ (Applied("MemberAdd") /\ Wants)
          => Snapshot = MemberAddOn(last.pre, last.g, last.arg[1])
    /\ (Applied("MemberChunk") /\ Wants)
          => Snapshot = MemberAddsOn(last.pre, last.g, last.arg)

\* C17 witness: a chunk of two members with one user id and different deaf
\* values was applied to a cache that held that user with another value.
C17_Witness ==
    /\ Applied("MemberChunk") /\ Wants
    /\ Len(last.arg) = 2
    /\ last.arg[1].user.id = last.arg[2].user.id
    /\ last.arg[1].deaf # last.arg[2].deaf
    /\ <<last.g, last.arg[1].user.id>> \in DOMAIN last.pre.members
    /\ members[<<last.g, last.arg[1].user.id>>].deaf = Some(last.arg[2].deaf)
    /\ Snapshot # last.pre

\* C19: after MemberAdd(g, m) with MEMBER selected, from any prior state, the
\* Member record at (g, m.user.id) carries m's nickname, roles, join
\* timestamp, pending flag, premium-since, mute and deaf, m.user.id is in the
\* roster of g, and the User record of m.user.id is present; and after a
\* chunk of members into a guild with an empty roster the roster is exactly
\* the set of their ids.
C19_AddCachesAll ==
    /\ (Applied("MemberAdd") /\ Wants)
          => /\ HasMember(last.g, last.u)
             /\ members[LastKey] = CachedFromMember(last.g, last.arg[1])
             /\ last.u \in Roster(last.g)
             /\ HasUser(last.u)
    /\ (Applied("MemberChunk") /\ Wants
            /\ (last.g \in DOMAIN last.pre.guild_members
                  => last.pre.guild_members[last.g] = {}))
          => Roster(last.g) = {last.arg[i].user.id : i \in 1..Len(last.arg)}

\* C20: caching a user u with guild g (cache_user, called by cache_member
\* when the member is not already cached as given) makes the membership set
\* of u the set it was before plus g: every guild already there is kept.
C20_MembershipGrows ==
    (Applied("MemberAdd") /\ Wants /\ ~ SameAsCached)
        => Membership(last.u) = PreMembership(last.u) \cup {last.g}

\* C20 witness: the user was associated with another guild and is now
\* associated with both.
C20_Witness ==
    /\ Applied("MemberAdd") /\ Wants /\ ~ SameAsCached
    /\ PreMembership(last.u) # {}
    /\ last.g \notin PreMembership(last.u)
    /\ Cardinality(Membership(last.u)) = 2
    /\ HasUser(last.u)

\* C21: when a member is cached from a PartialMember (which carries neither
\* pending nor premium_since) or from an InteractionMember (which carries
\* neither deaf, mute nor pending) over an existing Member record, the new
\* record keeps the previously cached value of every field the payload does
\* not carry.
C21_AbsentFieldsKept ==
    /\ (Applied("CachePartial") /\ LastKey \in DOMAIN last.pre.members)
          => /\ members[LastKey].pending = last.pre.members[LastKey].pending
             /\ members[LastKey].premium_since
                    = last.pre.members[LastKey].premium_since
    /\ (Applied("CacheInteraction") /\ LastKey \in DOMAIN last.pre.members)
          => /\ members[LastKey].deaf = last.pre.members[LastKey].deaf
             /\ members[LastKey].mute = last.pre.members[LastKey].mute
             /\ members[LastKey].pending = last.pre.members[LastKey].pending

\* C22: after a MemberAdd, a MemberChunk (for each of its members) or a
\* MemberUpdate on a cached member, applied with MEMBER selected, the User
\* record of the user the event carries is present and equals the profile
\* the event carries.
C22_UserRefreshed ==
    /\ (Applied("MemberAdd") /\ Wants)
          => HasUser(last.u) /\ users[last.u] = last.arg[1].user
    /\ (Applied("MemberChunk") /\ Wants)
          => \A i \in 1..Len(last.arg) :
                /\ HasUser(last.arg[i].user.id)
                /\ \E j \in i..Len(last.arg) :
                      users[last.arg[i].user.id] = last.arg[j].user
    /\ UpdatedCached
          => HasUser(last.u) /\ users[last.u] = last.arg[1].user

\* The record at key k of a Member table, as an Option.
Slot(f, k) == IF k \in DOMAIN f THEN Some(f[k]) ELSE None

\* The record a handler with call cl, run alone, leaves at its key when it
\* finds c there.
ApplyTo(c, cl) ==
    CASE cl.op = "MemberAdd" ->
            IF ~ Wants \/ (c # None /\ EqMember(c[1], cl.arg[1])) THEN c
            ELSE Some(CachedFromMember(cl.g, cl.arg[1]))
      [] cl.op = "CachePartial" ->
            IF c # None /\ EqPartial(c[1], cl.arg[1]) THEN c
            ELSE Some(CachedFromPartial(cl.g, cl.u, cl.arg[1]))
      [] cl.op = "CacheInteraction" ->
            IF c # None /\ EqInteraction(c[1], cl.arg[1]) THEN c
            ELSE Some(CachedFromInteraction(
                         cl.g, cl.arg[1],
                         IF c # None THEN c[1].deaf ELSE None,
                         IF c # None THEN c[1].mute ELSE None))
      [] cl.op = "MemberUpdate" ->
            IF ~ Wants \/ c = None THEN c
            ELSE Some(UpdatedMember(c[1], cl.arg[1]))
      [] cl.op = "MemberRemove" -> IF Wants THEN None ELSE c

\* The handlers that work on one (guild, user) key.
KeyOps ==
    {"MemberAdd", "CachePartial", "CacheInteraction", "MemberUpdate", "MemberRemove"}

\* Two handlers that overlapped on one key have both run to their end.
PairDone(t1, t2) ==
    /\ BothDone(t1, t2)
    /\ last.op = "pair"
    /\ call[t1].op \in KeyOps
    /\ call[t2].op \in KeyOps
    /\ call[t1].g = call[t2].g
    /\ call[t1].u = call[t2].u

\* C23: when two handlers have run concurrently on the same (guild, user) key,
\* the Member record they leave is the record left by running the two one
\* after the other, in one of the two orders, from the cache they started on.
C23_NoLostUpdate ==
    \A t1, t2 \in Threads :
        PairDone(t1, t2) =>
            LET k == <<call[t1].g, call[t1].u>>
                c == Slot(last.pre.members, k)
            IN Slot(members, k) \in
                  {ApplyTo(ApplyTo(c, call[t1]), call[t2]),
                   ApplyTo(ApplyTo(c, call[t2]), call[t1])}

\* member(g, u) on thread r and MemberUpdate(g, u) on thread w are the only
\* handlers since the cache of `last` was remembered.
ReadAndUpdate(r, w) ==
    /\ r # w
    /\ last.op = "pair"
    /\ call[r].op = "QueryMember"
    /\ call[w].op = "MemberUpdate"
    /\ call[r].g = call[w].g
    /\ call[r].u = call[w].u
    /\ \A s \in Threads \ {r, w} : pc[s] = "idle"

\* The record MemberUpdate on thread w found at its key, and the one it leaves.
BeforeUpdate(w) == Slot(last.pre.members, <<call[w].g, call[w].u>>)
AfterUpdate(w) == ApplyTo(BeforeUpdate(w), call[w])

\* C24: a read of member(g, u) that runs concurrently with a MemberUpdate on
\* the same key returns the record as it was before the update or the record
\* with all of the update's field changes, never one with some of them; and
\* a read that reaches the map once the update is over returns the updated
\* record.
C24_ReadAtomic ==
    /\ [](\A r, w \in Threads :
            (ReadAndUpdate(r, w) /\ pc[r] = "done" /\ pc[w] # "idle")
                => loc[r].seen \in {BeforeUpdate(w), AfterUpdate(w)})
    /\ [][\A r, w \in Threads :
            (/\ ReadAndUpdate(r, w)
             /\ pc[w] = "done"
             /\ pc[r] = "q_get"
             /\ pc'[r] = "q_drop")
                => loc'[r].seen = AfterUpdate(w)]_vars

\* C24 witness: the read has returned the record as it was before, while
\* the update is between its two groups of assignments and the table holds a
\* record that is neither the one before nor the one after.
C24_Witness ==
    \E r, w \in Threads :
        /\ ReadAndUpdate(r, w)
        /\ pc[r] = "done"
        /\ pc[w] = "mu_write"
        /\ loc[r].seen = BeforeUpdate(w)
        /\ Slot(members, <<call[w].g, call[w].u>>)
              \notin {BeforeUpdate(w), AfterUpdate(w)}

\* The handlers that cache or update a member.
Adders == {"MemberAdd", "MemberChunk", "MemberUpdate", "CachePartial", "CacheInteraction"}

\* C25: while an add, bulk add, update, partial-member or interaction-member
\* handler runs with no MemberRemove beside it, in every intermediate state
\* a Member record exists at (g, u) exactly when u is in the roster of g.
C25_OnlyRemoveDisagrees ==
    (last.op \in Adders /\ pc[1] # "idle")
        => \A g \in AllGuilds, u \in AllUsers :
              HasMember(g, u) <=> u \in Roster(g)

\* The number of accesses to `table` among the first n of thread t's handler.
Accesses(t, table, n) == Cardinality({j \in 1..n : trace[t][j] = table})

\* C26: every handler that adds a member (cache_member under MemberAdd,
\* cache_borrowed_partial_member, cache_borrowed_interaction_member) reaches
\* the maps in the same order: after the gate, first the lookup in the Member
\* table, then the write of the Member table, and only then the roster; when
\* the lookup finds an equal record there is no write to order.
C26_AddStepOrder ==
    (last.op \in {"MemberAdd", "CachePartial", "CacheInteraction"})
        => /\ pc[1] = "gate" => trace[1] = <<>>
           /\ trace[1] # <<>> => trace[1][1] = "members"
           /\ ~ loc[1].same
                => \A i \in 1..Len(trace[1]) :
                      trace[1][i] = "guild_members"
                          => Accesses(1, "members", i) >= 2

\* C27: the steps of member(guild, user), guild_members(guild) and user(id)
\* leave every table and index unchanged, and the value one of them has
\* returned stays what it is whatever is written to the cache afterwards.
C27_QueriesDetached ==
    /\ [][\A t \in Threads :
            (pc'[t] # pc[t] /\ (call[t].op \in Queries \/ call'[t].op \in Queries))
                => tables' = tables]_vars
    /\ [][\A t \in Threads :
            (call[t].op \in Queries /\ pc[t] = "done" /\ pc'[t] = "done")
                => loc'[t].seen = loc[t].seen]_vars

\* C27 witness: member(g, u) has returned a record, and the map has since
\* been written by another handler and holds a different one.
C27_Witness ==
    \E t \in Threads :
        /\ call[t].op = "QueryMember"
        /\ pc[t] = "done"
        /\ loc[t].seen # None
        /\ <<call[t].g, call[t].u>> \in DOMAIN members
        /\ loc[t].seen # Some(members[<<call[t].g, call[t].u>>])

\* C29: for every number n, ErrorCode::from(n).num() is n, whether n has an
\* arm of its own or becomes Other(n).
C29_FromThenNumIsId ==
    conv.op = "from" => conv.out_n = conv.n

\* C29 witness: the largest number, which has no arm, became Other and came
\* back unchanged.
C29_Witness ==
    /\ conv.op = "from"
    /\ conv.n = MaxCode
    /\ conv.code = Other(MaxCode)
    /\ conv.out_n = MaxCode

\* C30: for every named variant c, ErrorCode::from(c.num()) is c; no two
\* named variants have the same number, and the number of a named variant
\* never becomes Other.
C30_NumThenFromIsId ==
    /\ conv.op = "num" => conv.out_code = conv.code
    /\ \A c, d \in NamedCodes : Num(c) = Num(d) => c = d
    /\ \A c \in NamedCodes : From(Num(c)).variant # "Other"

\* C30 witness: the last named variant went to its number and back.
C30_Witness ==
    /\ conv.op = "num"
    /\ conv.code = Named("MaxActiveAnnouncementThreads")
    /\ conv.n = 160007
    /\ conv.out_code = Named("MaxActiveAnnouncementThreads")

\* C32: with events applied one handler at a time, in every state between
\* two handlers a Member record cached at (g, u) comes with the User record
\* of u and with g in the membership set of u, whichever payload variant
\* created the record.
C32_MemberHasUser ==
    AtRest =>
        \A g \in AllGuilds, u \in AllUsers :
            HasMember(g, u) => (HasUser(u) /\ g \in Membership(u))

\* C33: after interaction-member caching at (g, u) whose payload does not
\* equal a record cached there, the record at (g, u) has deaf and mute unset
\* when none was cached before and the cached deaf and mute otherwise, u is
\* in the roster of g, and the User table and the membership index are what
\* they were before.
C33_InteractionCaching ==
    (Applied("CacheInteraction") /\ ~ SameAsCached)
        => /\ HasMember(last.g, last.u)
           /\ members[LastKey].deaf =
                 (IF LastKey \in DOMAIN last.pre.members
                  THEN last.pre.members[LastKey].deaf ELSE None)
           /\ members[LastKey].mute =
                 (IF LastKey \in DOMAIN last.pre.members
                  THEN last.pre.members[LastKey].mute ELSE None)
           /\ last.u \in Roster(last.g)
           /\ users = last.pre.users
           /\ user_guilds = last.pre.user_guilds

\* C33 witness: a record with deaf and mute set and another nickname was
\* cached at the key; the interaction member replaced it and the new record
\* carries the cached deaf and mute.
C33_Witness ==
    /\ Applied("CacheInteraction") /\ ~ SameAsCached
    /\ LastKey \in DOMAIN last.pre.members
    /\ last.pre.members[LastKey].deaf = Some(FALSE)
    /\ last.pre.members[LastKey].nick # last.arg[1].nick
    /\ members[LastKey] # last.pre.members[LastKey]
    /\ members[LastKey].nick = last.arg[1].nick
    /\ members[LastKey].deaf = Some(FALSE)
    /\ members[LastKey].mute = Some(FALSE)

\* C34: after MemberRemove(g, u) the Member records at every other key, the
\* rosters of every other guild, the membership sets of every other user and
\* the User records of every other user are what they were before the
\* event, and every other user that was in the roster of g is still in it.
C34_RemoveFrame ==
    Applied("MemberRemove")
        => /\ \A k \in (AllGuilds \X AllUsers) \ {LastKey} :
                 Slot(members, k) = Slot(last.pre.members, k)
           /\ \A g \in AllGuilds \ {last.g} :
                 Slot(guild_members, g) = Slot(last.pre.guild_members, g)
           /\ \A u \in AllUsers \ {last.u} :
                 /\ Slot(user_guilds, u) = Slot(last.pre.user_guilds, u)
                 /\ Slot(users, u) = Slot(last.pre.users, u)
           /\ \A u \in AllUsers \ {last.u} :
                 (last.g \in DOMAIN last.pre.guild_members
                      /\ u \in last.pre.guild_members[last.g])
                    => u \in Roster(last.g)

\* C34 witness: a cached member has been removed from a guild whose roster
\* held another user, and that user's entries are all still there.
C34_Witness ==
    /\ Removed
    /\ LastKey \in DOMAIN last.pre.members
    /\ ~ HasMember(last.g, last.u)
    /\ \E u \in AllUsers \ {last.u} :
          /\ u \in last.pre.guild_members[last.g]
          /\ u \in Roster(last.g)
          /\ HasMember(last.g, u)
          /\ HasUser(u)
          /\ last.g \in Membership(u)

\* C35: after MemberUpdate every table and index has the keys it had before
\* the event, and when a Member was cached at the key its guild_id, user_id
\* and premium_since are what they were and the roster index, the
\* membership index and the User table are what they were.
C35_UpdateFrame ==
    Applied("MemberUpdate")
        => /\ DOMAIN members = DOMAIN last.pre.members
           /\ DOMAIN guild_members = DOMAIN last.pre.guild_members
           /\ DOMAIN user_guilds = DOMAIN last.pre.user_guilds
           /\ DOMAIN users = DOMAIN last.pre.users
           /\ LastKey \in DOMAIN last.pre.members
                 => /\ members[LastKey].guild_id = last.pre.members[LastKey].guild_id
                    /\ members[LastKey].user_id = last.pre.members[LastKey].user_id
                    /\ members[LastKey].premium_since =
                          last.pre.members[LastKey].premium_since
                    /\ guild_members = last.pre.guild_members
                    /\ user_guilds = last.pre.user_guilds
                    /\ users = last.pre.users

\* C35 witness: a MemberUpdate has run on a cached member that boosts the
\* guild; the record is still a boosting one.
C35_Witness ==
    /\ Applied("MemberUpdate") /\ Wants
    /\ LastKey \in DOMAIN last.pre.members
    /\ last.pre.members[LastKey].premium_since # None
    /\ members[LastKey].premium_since = last.pre.members[LastKey].premium_since
    /\ HasUser(last.u)

\* Thread t takes a step of a MemberRemove.
RemoveStep(t) == call[t].op = "MemberRemove" /\ pc'[t] # pc[t]

\* The user has no Member record, is in no roster and has no membership
\* entry.
Unknown(u) ==
    /\ \A g \in AllGuilds : ~ HasMember(g, u) /\ u \notin Roster(g)
    /\ u \notin DOMAIN user_guilds

\* C36: no step of a MemberRemove adds a key to a table or an index; a step
\* of a MemberRemove for a user with no Member record, in no roster and with
\* no membership entry leaves every table and index as it was; and a step
\* of a MemberRemove leaves in place every User record whose user has no
\* membership entry.
C36_RemoveCreatesNothing ==
    [][\A t \in Threads :
          RemoveStep(t)
             => /\ DOMAIN members' \subseteq DOMAIN members
                /\ DOMAIN guild_members' \subseteq DOMAIN guild_members
                /\ DOMAIN user_guilds' \subseteq DOMAIN user_guilds
                /\ DOMAIN users' \subseteq DOMAIN users
                /\ Unknown(U(t)) => tables' = tables
                /\ \A u \in DOMAIN users \ DOMAIN user_guilds :
                      u \in DOMAIN users' /\ users'[u] = users[u]]_vars

\* C36 witness: a MemberRemove has gone through the Member table, the roster
\* index and the membership index and returned without reaching the User
\* table, and the User record of its user is cached with no membership entry.
C36_Witness ==
    \E t \in Threads :
        /\ call[t].op = "MemberRemove"
        /\ pc[t] = "done"
        /\ trace[t] = <<"members", "guild_members", "user_guilds">>
        /\ HasUser(U(t))
        /\ U(t) \notin DOMAIN user_guilds

\* C37: when a MemberRemove(g, u) that has just been applied is applied once
\* more, the four maps after the second application are those the first
\* one left.
C37_RemoveTwice ==
    (pc[1] = "done" /\ last.op = "MemberRemoveAgain") => Snapshot = last.pre

\* C37 witness: the second application has gone through all four maps, the
\* user being in no guild after the first.
C37_Witness ==
    /\ pc[1] = "done" /\ last.op = "MemberRemoveAgain" /\ Wants
    /\ trace[1] = RemoveOrder
    /\ last.u \in DOMAIN user_guilds
    /\ Membership(last.u) = {}
    /\ ~ HasUser(last.u)

\* The names of the fields written, in the order written.
Keys(ser) == [i \in 1..Len(ser.entries) |-> ser.entries[i].key]

\* The value and the tokens of test_invite_create.
TestInvite ==
    [channel_id |-> 1, code |-> "aaaaaaa",
     created_at |-> "2021-01-01T00:00:00+00:00", guild_id |-> 2,
     inviter |-> None, max_age |-> 3600, max_uses |-> 5,
     target_user_type |-> None, target_user |-> None, temporary |-> FALSE,
     uses |-> 0]
TestTokens ==
    <<Struct("InviteCreate", 8),
      Str("channel_id"), NewtypeStruct("ChannelId"), Str("1"),
      Str("code"), Str("aaaaaaa"),
      Str("created_at"), Str("2021-01-01T00:00:00+00:00"),
      Str("guild_id"), NewtypeStruct("GuildId"), Str("2"),
      Str("max_age"), U64(3600),
      Str("max_uses"), U64(5),
      Str("temporary"), Bool(FALSE),
      Str("uses"), U8(0),
      StructEnd>>

\* C31: the serialized form of an InviteCreate holds each of inviter,
\* target_user_type and target_user exactly when the field is Some; with all
\* three None it holds the eight other fields in declaration order (for the
\* value of test_invite_create, the tokens of that test); and reading the
\* serialized form back gives the value that was serialized.
C31_InviteRoundTrip ==
    wire.op = "roundtrip"
        => /\ \A f \in Skipped :
                 (\E i \in 1..Len(wire.ser.entries) : wire.ser.entries[i].key = f)
                    <=> wire.value[f] # None
           /\ (\A f \in Skipped : wire.value[f] = None)
                 => /\ wire.ser.len = 8
                    /\ Keys(wire.ser) =
                          <<"channel_id", "code", "created_at", "guild_id",
                            "max_age", "max_uses", "temporary", "uses">>
           /\ wire.value = TestInvite => Tokens(wire.ser) = TestTokens
           /\ wire.back = wire.value

\* C31 witness: a value with an inviter and a target user but no target
\* type has been written as ten fields and read back as itself.
C31_Witness ==
    /\ wire.op = "roundtrip"
    /\ wire.value.inviter # None
    /\ wire.value.target_user # None
    /\ wire.value.target_user[1].avatar # None
    /\ wire.value.target_user_type = None
    /\ wire.ser.len = 10
    /\ wire.back = wire.value

\* C38: after exec, when the request was built the client has been handed
\* exactly that one request, of kind Message, without description or
\* options, with the name the builder was made with and the last
\* default_permission set (none when none was set); when building failed
\* the client has been handed nothing and the future returned holds the
\* build error.
C38_ExecSendsOnce ==
    cmd.phase = "done"
        => /\ cmd.built.ok
                 => /\ Len(cmd.sent) = 1
                    /\ cmd.sent[1].body.kind = "Message"
                    /\ cmd.sent[1].body.description = None
                    /\ cmd.sent[1].body.options = None
                    /\ cmd.sent[1].body.name = cmd.name
                    /\ cmd.sent[1].body.default_permission =
                          (IF cmd.sets = <<>> THEN None
                           ELSE Some(cmd.sets[Len(cmd.sets)]))
           /\ ~ cmd.built.ok
                 => /\ cmd.sent = <<>>
                    /\ cmd.future = [state |-> "error", error |-> cmd.built.error]

\* C38 witness: default_permission was set to true and then to false, the
\* request was built, and the client holds one request carrying false.
C38_Witness ==
    /\ cmd.phase = "done"
    /\ cmd.built.ok
    /\ cmd.sets = <<TRUE, FALSE>>
    /\ Len(cmd.sent) = 1
    /\ cmd.sent[1].body.default_permission = Some(FALSE)
    /\ cmd.future.state = "in flight"

\* The texts of the fields with ", " between each two neighbours.
RECURSIVE Separated(_, _)
Separated(embed, i) ==
    IF i > Len(embed) THEN <<>>
    ELSE <<FieldText[embed[i]]>>
            \o (IF i < Len(embed) THEN <<", ">> ELSE <<>>)
            \o Separated(embed, i + 1)

\* C39: the text of a MessageApiError with an embed list is the fields in
\* list order between "embed (" and ")", with ", " between each two
\* consecutive fields and nothing after the last field.
C39_EmbedSeparated ==
    (shown.op = "display" /\ shown.embed # None)
        => shown.out = <<"message fields invalid: ", "embed (">>
                          \o Separated(shown.embed[1], 1) \o <<")">>

====
